---- MODULE Spec2Model ----
(***************************************************************************)
(* Model of the dataset merge engine of the two scrapers                   *)
(*   cri_benimallal.py   (process_pdfs and its helpers)                    *)
(*   extract_projects.py (main and build_record)                           *)
(* Text is a sequence of one-character strings, an optional value is the   *)
(* empty sequence (None) or a one-element sequence (a present value).      *)
(***************************************************************************)
EXTENDS Integers, Sequences, FiniteSets, TLC

(***************************************************************************)
(* Bounds of the model                                                     *)
(***************************************************************************)
\* largest project_id a run of process_pdfs may allocate
MaxId == 5
\* largest number of projects one run of extract_projects.main finds
MaxProjects == 2

\* the largest whole rate (in percent) and the largest whole number of years
\* the reciprocal fills are applied to
MaxRate == 101

MaxYears == 20

\* the largest number of pages of a document that holds many projects
MaxPages == 3

(***************************************************************************)
(* Optional values and text                                                *)
(***************************************************************************)
None == <<>>

Some(v) == <<v>>

DigitChars == <<"0", "1", "2", "3", "4", "5", "6", "7", "8", "9">>

\* str(n) of a non-negative integer
RECURSIVE IntToStr(_)
IntToStr(n) ==
    IF n < 10 THEN <<DigitChars[n + 1]>>
    ELSE IntToStr(n \div 10) \o <<DigitChars[(n % 10) + 1]>>

\* "".join(pieces[lo..hi]), by halves
RECURSIVE Flat(_, _, _)
Flat(pieces, lo, hi) ==
    IF lo > hi THEN <<>>
    ELSE IF lo = hi THEN pieces[lo]
    ELSE Flat(pieces, lo, (lo + hi) \div 2) \o Flat(pieces, ((lo + hi) \div 2) + 1, hi)

\* the characters of s that belong to the set keep, in order
SelectChars(s, keep) == SelectSeq(s, LAMBDA c : c \in keep)

\* every character c of s replaced by the text f[c], other characters kept
MapChars(s, f) ==
    Flat([i \in 1..Len(s) |-> IF s[i] \in DOMAIN f THEN f[s[i]] ELSE <<s[i]>>], 1, Len(s))

LowerLetters == {"a", "b", "c", "d", "e", "f", "g", "h", "i", "j", "k", "l", "m",
                 "n", "o", "p", "q", "r", "s", "t", "u", "v", "w", "x", "y", "z"}

UpperLetters == {"A", "B", "C", "D", "E", "F", "G", "H", "I", "J", "K", "L", "M",
                 "N", "O", "P", "Q", "R", "S", "T", "U", "V", "W", "X", "Y", "Z"}

Digits == {"0", "1", "2", "3", "4", "5", "6", "7", "8", "9"}

\* letters that NFD splits into a base letter and a combining mark
AccentBase ==
    [c \in {"é", "è", "ê", "à", "â", "î", "ô", "û", "ç", "É", "È", "À", "Ô", "Î", "Ç"} |->
        CASE c \in {"é", "è", "ê"} -> "e"
          [] c \in {"à", "â"} -> "a"
          [] c = "î" -> "i"
          [] c = "ô" -> "o"
          [] c = "û" -> "u"
          [] c = "ç" -> "c"
          [] c \in {"É", "È"} -> "E"
          [] c = "À" -> "A"
          [] c = "Ô" -> "O"
          [] c = "Î" -> "I"
          [] c = "Ç" -> "C"]

\* letters that have no NFD decomposition (they survive _remove_accents)
PlainForeignLetters == {"ø", "Ø", "ß"}

SpaceChars == {" ", "\t", "\n"}

\* the characters matched by \w in a Python str pattern
WordChars ==
    LowerLetters \cup UpperLetters \cup Digits \cup {"_"}
        \cup DOMAIN AccentBase \cup PlainForeignLetters

LowerSeq == <<"a", "b", "c", "d", "e", "f", "g", "h", "i", "j", "k", "l", "m",
              "n", "o", "p", "q", "r", "s", "t", "u", "v", "w", "x", "y", "z">>

UpperSeq == <<"A", "B", "C", "D", "E", "F", "G", "H", "I", "J", "K", "L", "M",
              "N", "O", "P", "Q", "R", "S", "T", "U", "V", "W", "X", "Y", "Z">>

\* str.upper() per character (one character may become two)
UpperMap ==
    [c \in LowerLetters \cup DOMAIN AccentBase \cup PlainForeignLetters |->
        CASE c \in LowerLetters -> <<UpperSeq[CHOOSE i \in 1..26 : LowerSeq[i] = c]>>
          [] c = "é" -> <<"É">>
          [] c = "è" -> <<"È">>
          [] c = "à" -> <<"À">>
          [] c = "ô" -> <<"Ô">>
          [] c = "î" -> <<"Î">>
          [] c = "ç" -> <<"Ç">>
          [] c = "ê" -> <<"Ê">>
          [] c = "â" -> <<"Â">>
          [] c = "û" -> <<"Û">>
          [] c = "ø" -> <<"Ø">>
          [] c = "ß" -> <<"S", "S">>
          [] OTHER -> <<c>>]

RECURSIVE LStrip(_, _)
LStrip(s, chars) ==
    IF s # <<>> /\ Head(s) \in chars THEN LStrip(Tail(s), chars) ELSE s

RECURSIVE RStrip(_, _)
RStrip(s, chars) ==
    IF s # <<>> /\ s[Len(s)] \in chars THEN RStrip(SubSeq(s, 1, Len(s) - 1), chars) ELSE s

Strip(s, chars) == RStrip(LStrip(s, chars), chars)

\* re.sub(r"\s+", rep, s): every maximal run of whitespace becomes rep
SubSpaces(s, rep) ==
    Flat([i \in 1..Len(s) |-> IF s[i] \notin SpaceChars THEN <<s[i]>>
                              ELSE IF i > 1 /\ s[i - 1] \in SpaceChars THEN <<>>
                              ELSE rep], 1, Len(s))

remove_accents(s) ==
    IF s = <<>> THEN <<>>
    ELSE MapChars(s, [c \in DOMAIN AccentBase |-> <<AccentBase[c]>>])

normalize_for_reference(s) ==
    IF Strip(s, SpaceChars) = <<>> THEN <<>>
    ELSE LET s1 == remove_accents(Strip(s, SpaceChars))
             s2 == SelectChars(s1, WordChars \cup SpaceChars \cup {"-"})
             s3 == Strip(SubSpaces(s2, <<"-">>), {"-"})
         IN  MapChars(s3, UpperMap)

\* s.split(sep) for the separators seps: the pieces between them, the empty
\* ones included
RECURSIVE Split(_, _)
Split(s, seps) ==
    IF \A i \in 1..Len(s) : s[i] \notin seps THEN <<s>>
    ELSE LET i == CHOOSE i \in 1..Len(s) : s[i] \in seps /\ \A j \in 1..(i - 1) : s[j] \notin seps
         IN  <<SubSeq(s, 1, i - 1)>> \o Split(SubSeq(s, i + 1, Len(s)), seps)

\* sep.join(parts)
Join(parts, sep) == Flat([i \in 1..Len(parts) |-> IF i = 1 THEN parts[1] ELSE sep \o parts[i]], 1, Len(parts))

\* sub in s
Contains(s, sub) == \E i \in 1..(Len(s) - Len(sub) + 1) : SubSeq(s, i, i + Len(sub) - 1) = sub

\* s.replace(old, new), old not empty
RECURSIVE Replace(_, _, _)
Replace(s, old, new) ==
    IF Len(s) < Len(old) THEN s
    ELSE IF SubSeq(s, 1, Len(old)) = old THEN new \o Replace(SubSeq(s, Len(old) + 1, Len(s)), old, new)
    ELSE <<Head(s)>> \o Replace(Tail(s), old, new)

clean_text(text) ==
    IF text = <<>> THEN <<>>
    ELSE Strip(SubSpaces(text, <<" ">>), SpaceChars)

\* a title made of the same block of words twice keeps one block, when it
\* has six words or more
dedupe_repeated_title(title) ==
    LET t == clean_text(title)
        words == SelectSeq(Split(t, SpaceChars), LAMBDA w : w # <<>>)
        half == Len(words) \div 2
    IN  IF t = <<>> THEN t
        ELSE IF /\ Len(words) >= 6 /\ Len(words) % 2 = 0
                /\ SubSeq(words, 1, half) = SubSeq(words, half + 1, Len(words))
        THEN Join(SubSeq(words, 1, half), <<" ">>)
        ELSE t

(***************************************************************************)
(* Configuration of the two scripts                                        *)
(***************************************************************************)
\* region = "Béni Mellal-Khénifra" of process_one_pdf
BK_REGION == <<"B", "é", "n", "i", " ", "M", "e", "l", "l", "a", "l", "-", "K", "h", "é", "n", "i", "f", "r", "a">>

\* SOURCE_TYPE of cri_benimallal.py
SOURCE_TYPE == <<"C", "R", "I", " ", "B", "é", "n", "i", " ", "M", "e", "l", "l", "a", "l", "-", "K", "h", "é", "n", "i", "f", "r", "a">>

\* SOURCE_TYPE of extract_projects.py
EP_SOURCE_TYPE == <<"C", "R", "I">>

\* the region extract_region returns for the Fès-Meknès documents
FES_REGION == <<"F", "è", "s", "-", "M", "e", "k", "n", "è", "s">>

\* str() of a missing cell (NaN), as produced by astype(str)
NanStr == <<"n", "a", "n">>

\* the columns of OUTPUT_COLUMNS that the merge engine tests for
OUTPUT_COLUMNS == {"project_id", "region", "source_type"}

(***************************************************************************)
(* Numbers.  A number read from a text is kept exactly as [w, m]: w whole  *)
(* units and m thousandths (0..999), where the code holds a float.  The    *)
(* operators below compute what the float expressions of the code compute  *)
(* on numbers of at most three decimals.                                   *)
(***************************************************************************)
Dec(w, m) == [w |-> w, m |-> m]

DecLT(a, b) == a.w < b.w \/ (a.w = b.w /\ a.m < b.m)

DecLE(a, b) == a = b \/ DecLT(a, b)

\* thousandths above the whole units carried into them
Carry(w, m) == Dec(w + (m \div 1000), m % 1000)

\* ((a + b) / 2) * k for the even multiplier k (1000, 10000, 1000000)
MeanTimes(a, b, k) ==
    Carry((a.w + b.w) * (k \div 2) + ((a.m + b.m) * (k \div 2)) \div 1000,
          ((a.m + b.m) * (k \div 2)) % 1000)

\* x * k for the multiplier k (1000, 10000, 1000000)
Times(a, k) == Dec(a.w * k + (a.m * k) \div 1000, (a.m * k) % 1000)

\* (a + b) / 2, exact when the thousandths of a and b add up to an even number
Mean(a, b) == Carry((a.w + b.w) \div 2, ((a.w + b.w) % 2) * 500 + (a.m + b.m) \div 2)

\* a count c of hundredths (centimes) as a number
Hundredths(w, c) == Dec(w + (c \div 100), (c % 100) * 10)

\* n / d rounded to the nearest integer, a tie going to the even one
RoundDiv(n, d) ==
    LET q == n \div d
        r == n % d
    IN  IF 2 * r > d \/ (2 * r = d /\ q % 2 = 1) THEN q + 1 ELSE q

\* round(x, 2)
Round2(a) == Hundredths(a.w, RoundDiv(a.m, 10))

\* 100.0 / x cut after two decimals instead of rounded
Floor100Over(a) == Hundredths(0, 10000000 \div (a.w * 1000 + a.m))

\* round(100.0 / x, 2) for x > 0: 10^7 / (thousandths of x) hundredths
Round100Over(a) == Hundredths(0, RoundDiv(10000000, a.w * 1000 + a.m))

IsPositive(a) == a.w > 0 \/ a.m > 0

\* INV_LOW_MAX and INV_MEDIUM_MAX of both scripts
INV_LOW_MAX == 5000000

INV_MEDIUM_MAX == 20000000

\* ROI_ASSUMPTION_YEARS of extract_projects.py
ROI_ASSUMPTION_YEARS == 6

\* investment_range_label of both scripts
investment_range_label(estimated_mad) ==
    IF estimated_mad = None THEN None
    ELSE IF DecLT(estimated_mad[1], Dec(INV_LOW_MAX, 0)) THEN Some("Low")
    ELSE IF DecLE(estimated_mad[1], Dec(INV_MEDIUM_MAX, 0)) THEN Some("Medium")
    ELSE Some("High")

\* a minimum that forgets the factor 0.8
min_investment_mad_whole(estimated_mad) ==
    IF estimated_mad = None THEN None ELSE Some(Round2(estimated_mad[1]))

\* min_investment_mad of both scripts, round(x * 0.8, 2): x * 0.8 is
\* (8w div 10) units and (8w mod 10) * 1000 + 8m ten-thousandths
min_investment_mad(estimated_mad) ==
    IF estimated_mad = None THEN None
    ELSE LET a == estimated_mad[1]
         IN  Some(Hundredths((a.w * 8) \div 10, RoundDiv(((a.w * 8) % 10) * 1000 + a.m * 8, 100)))

(***************************************************************************)
(* The text searched for numeric fields, as a sequence of tokens.  A token *)
(* is [k, v, glued, spaced]: k is the kind ("num" for a number with its    *)
(* value v, else the keyword or sign: "KDHS", "MDH", "MDHS", "Mn",           *)
(* "DH", "DHS", "dash" (-), "a" (the word à), "colon", "CA",               *)
(* "INVESTISSEMENT", "Sup", "m2", "Ha", "TRI", "moyen", "pct", "PBP",      *)
(* "ROI", "ans", "InvestissementPotentiel" and "RetourSurInvestissement"   *)
(* (the labels of extract_projects.py with their parenthesis), "word" for  *)
(* any other word), glued tells that no white space separates it from the  *)
(* token before, spaced that its letters are written apart ("M D H").      *)
(* Tokens are separated by white space unless glued; a number token is a   *)
(* whole number as the patterns read it, an amount in DH has at least      *)
(* three characters.                                                       *)
(***************************************************************************)
Num(w, m) == [k |-> "num", v |-> Dec(w, m), glued |-> FALSE, spaced |-> FALSE]

Word(kind) == [k |-> kind, v |-> Dec(0, 0), glued |-> FALSE, spaced |-> FALSE]

Glued(tok) == [tok EXCEPT !.glued = TRUE]

Spaced(tok) == [tok EXCEPT !.spaced = TRUE]

\* MDHS?
MDHUnits == {"MDH", "MDHS"}

\* the kinds of token that do not begin with a word character
Signs == {"dash", "colon", "pct"}

\* \b before the word or number at position i, or after the one at
\* position i - 1: the two tokens are not a word or number glued to a word
\* or number
BoundaryBefore(t, i) ==
    ~(i \in 2..Len(t) /\ t[i].glued /\ t[i - 1].k \notin Signs /\ t[i].k \notin Signs)

\* _norm, M\s*D\s*H\s*S?\b: an MDH written without S takes the white space
\* after it into the match when a word or a number follows, and the match
\* loses its white space
JoinsNext(t, i) ==
    /\ t[i].k = "MDH" /\ BoundaryBefore(t, i)
    /\ i < Len(t) /\ ~t[i + 1].glued /\ t[i + 1].k \notin Signs

\* the token at position i once the MDH before it is joined to it
Joined(t, i) == IF i > 1 /\ JoinsNext(t, i - 1) THEN [t[i] EXCEPT !.glued = TRUE] ELSE t[i]

\* _norm: an MDH joined to the word after it is no unit any more; a keyword
\* written with its letters apart is recognised only if _norm collapses it,
\* which it does at a word boundary
norm(t) ==
    [i \in 1..Len(t) |->
        IF JoinsNext(t, i) THEN [Joined(t, i) EXCEPT !.k = "word", !.spaced = FALSE]
        ELSE IF ~t[i].spaced THEN Joined(t, i)
        ELSE IF /\ t[i].k \in {"MDH", "MDHS", "PBP", "TRI", "CA", "DH", "DHS", "KDHS"}
                /\ ~Joined(t, i).glued
        THEN [Joined(t, i) EXCEPT !.spaced = FALSE]
        ELSE [Joined(t, i) EXCEPT !.k = "word", !.spaced = FALSE]]

\* the kind of the token at position i, "end" past the end of the text
Kind(t, i) == IF i \in 1..Len(t) THEN t[i].k ELSE "end"

\* the position after an optional token of one of the kinds at position i
SkipOpt(t, i, kinds) == IF Kind(t, i) \in kinds THEN i + 1 ELSE i

\* (?:-|à)
RangeSep == {"dash", "a"}

\* [:\-]?
LabelSep == {"colon", "dash"}

\* DHS?
DHUnits == {"DH", "DHS"}

\* re.search: the match at the leftmost position where the pattern matches
MinOf(S) == CHOOSE x \in S : \A y \in S : x <= y

\* the greatest element of a set of numbers that is not empty
LastOf(S) == CHOOSE x \in S : \A y \in S : y <= x

\* text[span[1]..span[2]]
SpanText(text, span) == SubSeq(text, span[1], span[2])

\* matches[i] is the match of a pattern at position i, None when it does
\* not match there
Search(matches) ==
    LET S == {i \in 1..Len(matches) : matches[i] # None}
    IN  IF S = {} THEN None ELSE matches[MinOf(S)]

Groups(g1, g2) == Some([g1 |-> g1, g2 |-> g2])

\* a b (Mn)? MDH, a and b separated by - or à
m_inv_at(t, i) ==
    IF /\ Kind(t, i) = "num" /\ Kind(t, i + 1) \in RangeSep /\ Kind(t, i + 2) = "num"
       /\ Kind(t, SkipOpt(t, i + 3, {"Mn"})) \in MDHUnits
    THEN Groups(t[i].v, Some(t[i + 2].v)) ELSE None

m_kdhs_at(t, i) ==
    IF /\ Kind(t, i) = "num" /\ Kind(t, i + 1) \in RangeSep /\ Kind(t, i + 2) = "num"
       /\ Kind(t, i + 3) = "KDHS"
    THEN Groups(t[i].v, Some(t[i + 2].v)) ELSE None

\* the number a pattern opening with \b reads in a number glued to the word
\* before it: what follows the decimal sign, written without closing zeros
Decimals(v) ==
    IF v.m = 0 THEN None
    ELSE IF v.m % 100 = 0 THEN Some(v.m \div 100)
    ELSE IF v.m % 10 = 0 THEN Some(v.m \div 10)
    ELSE Some(v.m)

\* \b x KDHS
m_kdhs_single_at(t, i) ==
    IF Kind(t, i) = "num" /\ Kind(t, i + 1) = "KDHS"
    THEN IF BoundaryBefore(t, i) THEN Groups(t[i].v, None)
         ELSE IF Decimals(t[i].v) # None THEN Groups(Dec(Decimals(t[i].v)[1], 0), None)
         ELSE None
    ELSE None

\* INVESTISSEMENT [:-]? x (Mn)? MDH
m_inv_single_labelled_at(t, i) ==
    LET n == SkipOpt(t, i + 1, LabelSep)
    IN  IF /\ Kind(t, i) = "INVESTISSEMENT" /\ Kind(t, n) = "num"
           /\ Kind(t, SkipOpt(t, n + 1, {"Mn"})) \in MDHUnits
        THEN Groups(t[n].v, None) ELSE None

m_inv_single_at(t, i) ==
    IF Kind(t, i) = "num" /\ Kind(t, SkipOpt(t, i + 1, {"Mn"})) \in MDHUnits
    THEN Groups(t[i].v, None) ELSE None

\* - x DHS - CA
m_dh_ca_at(t, i) ==
    IF /\ Kind(t, i) = "dash" /\ Kind(t, i + 1) = "num" /\ Kind(t, i + 2) \in DHUnits
       /\ Kind(t, i + 3) = "dash" /\ Kind(t, i + 4) = "CA"
    THEN Groups(t[i + 1].v, None) ELSE None

\* INVESTISSEMENT .*? x DHS: the first amount in DH after the label
m_dh_labelled_at(t, i) ==
    LET S == {j \in (i + 2)..Len(t) : Kind(t, j) \in DHUnits /\ Kind(t, j - 1) = "num"}
    IN  IF Kind(t, i) = "INVESTISSEMENT" /\ S # {}
        THEN Groups(t[MinOf(S) - 1].v, None) ELSE None

\* the first standalone amount in DH, from a word boundary on: of a number
\* glued to the word before it, the decimal sign and what follows
m_dh_standalone_at(t, i) ==
    IF Kind(t, i) = "num" /\ Kind(t, i + 1) \in DHUnits
    THEN IF BoundaryBefore(t, i) THEN Groups(t[i].v, None)
         ELSE IF t[i].v.m # 0 THEN Groups(Dec(0, t[i].v.m), None)
         ELSE None
    ELSE None

\* Sup [:-]? s1 (m²)? s2 (m²)? with s1 and s2 separated by - or à; when a
\* word is glued to s2 the pattern gives up the decimals of s2 to end on a
\* word boundary
m_surf_range_at(t, i) ==
    LET n == SkipOpt(t, i + 1, LabelSep)
        sep == SkipOpt(t, n + 1, {"m2"})
    IN  IF /\ Kind(t, i) = "Sup" /\ Kind(t, n) = "num" /\ Kind(t, sep) \in RangeSep
           /\ Kind(t, sep + 1) = "num"
        THEN IF Kind(t, sep + 2) = "m2" \/ BoundaryBefore(t, sep + 2)
             THEN Groups(t[n].v, Some(t[sep + 1].v))
             ELSE IF t[sep + 1].v.m # 0
             THEN Groups(t[n].v, Some(Dec(t[sep + 1].v.w, 0)))
             ELSE None
        ELSE None

\* Sup [:-]? s m²
m_surf_single_at(t, i) ==
    LET n == SkipOpt(t, i + 1, LabelSep)
    IN  IF Kind(t, i) = "Sup" /\ Kind(t, n) = "num" /\ Kind(t, n + 1) = "m2"
        THEN Groups(t[n].v, None) ELSE None

\* Sup [:-]? h1 (h2)? Ha
m_ha_at(t, i) ==
    LET n == SkipOpt(t, i + 1, LabelSep)
    IN  IF Kind(t, i) = "Sup" /\ Kind(t, n) = "num"
        THEN IF Kind(t, n + 1) \in RangeSep /\ Kind(t, n + 2) = "num" /\ Kind(t, n + 3) = "Ha"
             THEN Groups(t[n].v, Some(t[n + 2].v))
             ELSE IF Kind(t, n + 1) = "Ha" THEN Groups(t[n].v, None)
             ELSE None
        ELSE None

\* TRI (moyen)? [:-]? r1 r2 %?
m_roi_range_at(t, i) ==
    LET n == SkipOpt(t, SkipOpt(t, i + 1, {"moyen"}), LabelSep)
    IN  IF /\ Kind(t, i) = "TRI" /\ Kind(t, n) = "num" /\ Kind(t, n + 1) \in RangeSep
           /\ Kind(t, n + 2) = "num"
        THEN Groups(t[n].v, Some(t[n + 2].v)) ELSE None

\* TRI (moyen)? [:-]? r1 %?
m_roi_single_at(t, i) ==
    LET n == SkipOpt(t, SkipOpt(t, i + 1, {"moyen"}), LabelSep)
    IN  IF Kind(t, i) = "TRI" /\ Kind(t, n) = "num" THEN Groups(t[n].v, None) ELSE None

\* label [:-]? p1 (-|à)? (p2)? ans
YearsAt(t, i, label) ==
    LET n == SkipOpt(t, i + 1, LabelSep)
        j == SkipOpt(t, n + 1, RangeSep)
    IN  IF Kind(t, i) = label /\ Kind(t, n) = "num"
        THEN IF Kind(t, j) = "num" /\ Kind(t, j + 1) = "ans" THEN Groups(t[n].v, Some(t[j].v))
             ELSE IF Kind(t, j) = "ans" THEN Groups(t[n].v, None)
             ELSE None
        ELSE None

\* \bROI\b ...
m_roi_years_at(t, i) == IF BoundaryBefore(t, i) THEN YearsAt(t, i, "ROI") ELSE None

\* the value of a match: the mean of the two groups times k, or the first
\* group times k
Scaled(match, k) ==
    IF match[1].g2 # None THEN MeanTimes(match[1].g1, match[1].g2[1], k)
    ELSE Times(match[1].g1, k)

Plain(match) ==
    IF match[1].g2 # None THEN Mean(match[1].g1, match[1].g2[1]) ELSE match[1].g1

FirstOf(m1, m2) == IF m1 # None THEN m1 ELSE m2

\* est_mad after the KDHS block
est_kdhs(t) ==
    LET m_kdhs == Search([i \in 1..Len(t) |-> m_kdhs_at(t, i)])
        m_kdhs_single == Search([i \in 1..Len(t) |-> m_kdhs_single_at(t, i)])
    IN  IF m_kdhs # None THEN Some(Scaled(m_kdhs, 1000))
        ELSE IF m_kdhs_single # None THEN Some(Scaled(m_kdhs_single, 1000))
        ELSE None

\* est_mad after the MDH block
est_mdh(t) ==
    LET m_inv == Search([i \in 1..Len(t) |-> m_inv_at(t, i)])
        m_inv_single == FirstOf(Search([i \in 1..Len(t) |-> m_inv_single_labelled_at(t, i)]),
                                Search([i \in 1..Len(t) |-> m_inv_single_at(t, i)]))
    IN  IF m_inv # None THEN Some(Scaled(m_inv, 1000000))
        ELSE IF m_inv_single # None /\ est_kdhs(t) = None THEN Some(Scaled(m_inv_single, 1000000))
        ELSE est_kdhs(t)

\* a DH block that tries the amount after the investment label first
est_dh_labelled_first(t) ==
    LET m_dh == FirstOf(Search([i \in 1..Len(t) |-> m_dh_labelled_at(t, i)]),
                        FirstOf(Search([i \in 1..Len(t) |-> m_dh_ca_at(t, i)]),
                                Search([i \in 1..Len(t) |-> m_dh_standalone_at(t, i)])))
    IN  IF est_mdh(t) # None THEN est_mdh(t)
        ELSE IF m_dh # None THEN Some(m_dh[1].g1)
        ELSE None

\* est_mad after the DH block
est_dh(t) ==
    LET m_dh == FirstOf(Search([i \in 1..Len(t) |-> m_dh_ca_at(t, i)]),
                        FirstOf(Search([i \in 1..Len(t) |-> m_dh_labelled_at(t, i)]),
                                Search([i \in 1..Len(t) |-> m_dh_standalone_at(t, i)])))
    IN  IF est_mdh(t) # None THEN est_mdh(t)
        ELSE IF m_dh # None THEN Some(m_dh[1].g1)
        ELSE None

\* required_land_area_m2
land_area(t) ==
    LET m_surf_range == Search([i \in 1..Len(t) |-> m_surf_range_at(t, i)])
        m_surf_single == Search([i \in 1..Len(t) |-> m_surf_single_at(t, i)])
        m_ha == Search([i \in 1..Len(t) |-> m_ha_at(t, i)])
    IN  IF m_surf_range # None THEN Some(Plain(m_surf_range))
        ELSE IF m_surf_single # None THEN Some(Plain(m_surf_single))
        ELSE IF m_ha # None THEN Some(Scaled(m_ha, 10000))
        ELSE None

\* roi_estimated and payback_period_years as found in the text
found_roi(t) ==
    LET m_roi == FirstOf(Search([i \in 1..Len(t) |-> m_roi_range_at(t, i)]),
                         Search([i \in 1..Len(t) |-> m_roi_single_at(t, i)]))
    IN  IF m_roi # None THEN Some(Plain(m_roi)) ELSE None

found_payback(t) ==
    LET m_pbp == Search([i \in 1..Len(t) |-> YearsAt(t, i, "PBP")])
        m_roi_years == Search([i \in 1..Len(t) |-> m_roi_years_at(t, i)])
    IN  IF m_pbp # None THEN Some(Plain(m_pbp))
        ELSE IF m_roi_years # None THEN Some(Plain(m_roi_years))
        ELSE None

\* the two deterministic fills, in the order of the code
fill_roi(roi, payback) ==
    IF roi = None /\ payback # None /\ IsPositive(payback[1])
    THEN Some(Round100Over(payback[1])) ELSE roi

fill_payback(roi, payback) ==
    IF payback = None /\ roi # None /\ IsPositive(roi[1]) /\ DecLE(roi[1], Dec(100, 0))
    THEN Some(Round100Over(roi[1])) ELSE payback

extract_numeric_fields(text) ==
    LET t == norm(text)
        roi == fill_roi(found_roi(t), found_payback(t))
    IN  [estimated_investment_mad |-> est_dh(t),
         required_land_area_m2 |-> land_area(t),
         roi_estimated |-> roi,
         payback_period_years |-> fill_payback(roi, found_payback(t))]

(***************************************************************************)
(* The numeric fields of extract_projects.py, which searches the text as   *)
(* it is: a keyword whose letters are written apart is not recognised.     *)
(***************************************************************************)
literal(t) == [i \in 1..Len(t) |-> IF t[i].spaced THEN [t[i] EXCEPT !.k = "word"] ELSE t[i]]

\* Investissement potentiel (...) [:-] x MDH
ep_inv_mdh_at(t, i) ==
    IF /\ Kind(t, i) = "InvestissementPotentiel" /\ Kind(t, i + 1) \in LabelSep
       /\ Kind(t, i + 2) = "num" /\ Kind(t, i + 3) \in MDHUnits
    THEN Groups(t[i + 2].v, None) ELSE None

\* Investissement potentiel (...) [:-] x DH
ep_inv_dh_at(t, i) ==
    IF /\ Kind(t, i) = "InvestissementPotentiel" /\ Kind(t, i + 1) \in LabelSep
       /\ Kind(t, i + 2) = "num" /\ Kind(t, i + 3) = "DH"
    THEN Groups(t[i + 2].v, None) ELSE None

extract_estimated_investment_mad(text) ==
    LET m_mdh == Search([i \in 1..Len(literal(text)) |-> ep_inv_mdh_at(literal(text), i)])
        m_dh == Search([i \in 1..Len(literal(text)) |-> ep_inv_dh_at(literal(text), i)])
    IN  IF m_mdh # None
        THEN Some(IF m_mdh[1].g1.w < 1000 THEN Times(m_mdh[1].g1, 1000000) ELSE m_mdh[1].g1)
        ELSE IF m_dh # None THEN Some(m_dh[1].g1)
        ELSE None

\* Retour sur investissement (...) [:-] a b ans, a and b whole numbers
\* separated by à or -
ep_payback_range_at(t, i) ==
    IF /\ Kind(t, i) = "RetourSurInvestissement" /\ Kind(t, i + 1) \in LabelSep
       /\ Kind(t, i + 2) = "num" /\ t[i + 2].v.m = 0 /\ Kind(t, i + 3) \in RangeSep
       /\ Kind(t, i + 4) = "num" /\ t[i + 4].v.m = 0 /\ Kind(t, i + 5) = "ans"
    THEN Groups(t[i + 2].v, Some(t[i + 4].v)) ELSE None

\* Retour sur investissement (...) [:-] a ans
ep_payback_single_at(t, i) ==
    IF /\ Kind(t, i) = "RetourSurInvestissement" /\ Kind(t, i + 1) \in LabelSep
       /\ Kind(t, i + 2) = "num" /\ t[i + 2].v.m = 0 /\ Kind(t, i + 3) = "ans"
    THEN Groups(t[i + 2].v, None) ELSE None

extract_payback_period_years(text) ==
    LET m == FirstOf(Search([i \in 1..Len(literal(text)) |-> ep_payback_range_at(literal(text), i)]),
                     Search([i \in 1..Len(literal(text)) |-> ep_payback_single_at(literal(text), i)]))
    IN  IF m # None THEN Some(Plain(m)) ELSE None

\* no rate without a positive payback
roi_estimated_only_if_payback(payback_years) ==
    IF payback_years # None /\ IsPositive(payback_years[1])
    THEN Some(Round100Over(payback_years[1]))
    ELSE None

\* roi_estimated_only: 100 / payback, or 100 / 6 without a positive payback;
\* build_record rounds it to two decimals
roi_estimated_only(payback_years) ==
    IF payback_years # None /\ IsPositive(payback_years[1])
    THEN Some(Round100Over(payback_years[1]))
    ELSE Some(Round100Over(Dec(ROI_ASSUMPTION_YEARS, 0)))

\* round(x, 2) if x is not None else None
RoundOpt(x) == IF x = None THEN None ELSE Some(Round2(x[1]))

(***************************************************************************)
(* What pdfplumber finds in a PDF file.  opens is FALSE when               *)
(* pdfplumber.open raises; a page has the text extract_text returns (<<>>  *)
(* for None or ""), raises tells that extract_text raises on it, left and  *)
(* right are the texts of the two half-page crops (None when the crop      *)
(* raises).                                                                *)
(***************************************************************************)
TextPage(text) == [text |-> text, raises |-> FALSE, left |-> Some(text), right |-> Some(<<>>)]

BlankPage == TextPage(<<>>)

RaisingPage == [text |-> <<>>, raises |-> TRUE, left |-> None, right |-> None]

PdfOf(pages) == [opens |-> TRUE, pages |-> pages]

\* "\n".join([p for p in parts if p])
RECURSIVE JoinLines(_)
JoinLines(parts) ==
    IF parts = <<>> THEN <<>>
    ELSE LET rest == JoinLines(Tail(parts))
         IN  IF Head(parts) = <<>> THEN rest
             ELSE IF rest = <<>> THEN Head(parts)
             ELSE Head(parts) \o <<"\n">> \o rest

\* the crop texts collected over the pages; a crop that raises adds nothing
CropParts(pages, side) ==
    [i \in 1..Len(pages) |-> IF pages[i][side] = None THEN <<>> ELSE pages[i][side][1]]

\* the three texts of the first two pages, all empty when the document
\* cannot be opened, has no page, or a page cannot be read
extract_text_with_layout(pdf) ==
    LET result == [full_text |-> <<>>, left_text |-> <<>>, right_text |-> <<>>]
        max_pages == IF Len(pdf.pages) < 2 THEN Len(pdf.pages) ELSE 2
        pages == SubSeq(pdf.pages, 1, max_pages)
    IN  IF ~pdf.opens \/ pdf.pages = <<>> THEN result
        ELSE IF \E i \in 1..max_pages : pages[i].raises THEN result
        ELSE [full_text |-> Strip(JoinLines([i \in 1..max_pages |-> pages[i].text]), SpaceChars),
              left_text |-> Strip(JoinLines(CropParts(pages, "left")), SpaceChars),
              right_text |-> Strip(JoinLines(CropParts(pages, "right")), SpaceChars)]

(***************************************************************************)
(* The documents of the cache DOSSIER_CIBLE.  name is the rank of the path *)
(* in string order, pdf is what pdfplumber finds in the file, kind tells   *)
(* what the extraction of the document does: "text" (a full text is        *)
(* found), "empty" (no full text), "raise" (the worker task ends with an   *)
(* exception); title is the title extract_fields finds in the text and     *)
(* tokens the full text as extract_numeric_fields reads it.                *)
(***************************************************************************)
AppelTitle == <<"C", "e", "n", "t", "r", "e", " ", "d", "'", "A", "p", "p", "e", "l">>

SechageTitle == <<"U", "n", "i", "t", "é", " ", "d", "e", " ", "s", "é", "c", "h", "a", "g", "e">>

\* "INVESTISSEMENT : 20 - 30 MDH  Sup : 500 - 700 m²  TRI 12 %"
DocAppel == [name |-> 1, kind |-> "text", title |-> AppelTitle, tokens |->
                 <<Word("INVESTISSEMENT"), Word("colon"), Num(20, 0), Word("dash"), Num(30, 0), Word("MDH"),
                   Word("Sup"), Word("colon"), Num(500, 0), Word("dash"), Num(700, 0), Word("m2"),
                   Word("TRI"), Num(12, 0), Word("pct")>>,
             pdf |-> PdfOf(<<TextPage(AppelTitle)>>)]

DocBroken == [name |-> 2, kind |-> "raise", title |-> <<>>, tokens |-> <<>>, pdf |-> PdfOf(<<TextPage(<<"x">>)>>)]

DocEmpty == [name |-> 3, kind |-> "empty", title |-> <<>>, tokens |-> <<>>, pdf |-> PdfOf(<<BlankPage, BlankPage, TextPage(<<"x">>)>>)]

\* "- 150 000 DHS - CA : 200 000 DHS  PBP : 4 - 5 ans"
DocSechage == [name |-> 4, kind |-> "text", title |-> SechageTitle, tokens |->
                 <<Word("dash"), Num(150000, 0), Word("DHS"), Word("dash"), Word("CA"), Word("colon"),
                   Num(200000, 0), Word("DHS"), Word("PBP"), Word("colon"), Num(4, 0), Word("dash"), Num(5, 0),
                   Word("ans")>>,
               pdf |-> PdfOf(<<BlankPage, TextPage(SechageTitle)>>)]

Docs == {DocAppel, DocBroken, DocEmpty, DocSechage}

\* the contents of the cache directory the model starts from or downloads
CacheChoices == {{}, {DocBroken, DocSechage}, {DocAppel, DocSechage}, Docs}

(***************************************************************************)
(* Locating the title                                                      *)
(***************************************************************************)
\* two texts equal under re.IGNORECASE
CiEq(a, b) == Len(a) = Len(b) /\ MapChars(a, UpperMap) = MapChars(b, UpperMap)

\* text[i..i+Len(lit)-1] is lit, letter case ignored
CiAt(text, i, lit) == i + Len(lit) - 1 <= Len(text) /\ CiEq(SubSeq(text, i, i + Len(lit) - 1), lit)

\* the first position from i on that holds no character of chars
RunEnd(text, i, chars) ==
    IF \E j \in i..Len(text) : text[j] \notin chars
    THEN CHOOSE j \in i..Len(text) : text[j] \notin chars /\ \A k \in i..(j - 1) : text[k] \in chars
    ELSE IF i > Len(text) THEN i ELSE Len(text) + 1

\* the words of a label matched from position a with \s* between them,
\* letter case ignored: the position after the label, 0 when it is not there
RECURSIVE LabelEnd(_, _, _)
LabelEnd(text, a, words) ==
    IF ~CiAt(text, a, Head(words)) THEN 0
    ELSE IF Len(words) = 1 THEN a + Len(Head(words))
    ELSE LabelEnd(text, RunEnd(text, a + Len(Head(words)), SpaceChars), Tail(words))

\* \s*(?:PR\d+)?\s*\n(.+?)(?=\n|Secteur) with IGNORECASE and DOTALL, matched
\* from the position z after the label: the span <<first, last>> of group 1
\* or <<>>.  The line end before the group is the last one of the blank
\* zone after the colon that a group can follow; the group is the shortest
\* text followed by a line end or by "Secteur".
m_title_after(text, z) ==
    LET n == Len(text)
        w1 == RunEnd(text, z, SpaceChars)
        pr == CiAt(text, w1, <<"P", "R">>) /\ w1 + 2 <= n /\ text[w1 + 2] \in Digits
        d == RunEnd(text, w1 + 2, Digits)
        w2 == RunEnd(text, d, SpaceChars)
        zone == (z..(w1 - 1)) \cup (IF pr THEN d..(w2 - 1) ELSE {})
        Ends(g) == {c \in g..(n - 1) : text[c + 1] = "\n" \/ CiAt(text, c + 1, <<"S", "e", "c", "t", "e", "u", "r">>)}
        bs == {b \in zone : text[b] = "\n" /\ Ends(b + 1) # {}}
    IN  IF z # 0 /\ bs # {} THEN <<LastOf(bs) + 1, MinOf(Ends(LastOf(bs) + 1))>>
        ELSE <<>>

\* r"Projet\s*N°\s*:\s*(?:PR\d+)?\s*\n(.+?)(?=\n|Secteur)" with IGNORECASE
\* and DOTALL, matched from position a: the span of group 1 or <<>>
m_title_at(text, a) ==
    m_title_after(text, LabelEnd(text, a, <<<<"P", "r", "o", "j", "e", "t">>, <<"N", "°">>, <<":">>>>))

extract_project_title(text, filename) ==
    LET lines == Split(text, {"\n"})
        candidate(i) == Strip(lines[i + 1], SpaceChars)
        next_lines == {i \in 1..(Len(lines) - 1) :
                          /\ Contains(lines[i], <<"P", "r", "o", "j", "e", "t", " ", "N">>)
                          /\ Len(candidate(i)) > 3
                          /\ ~Contains(candidate(i), <<"S", "e", "c", "t", "e", "u", "r">>)}
        starts == {a \in 1..Len(text) : m_title_at(text, a) # <<>>}
    IN  IF next_lines # {} THEN dedupe_repeated_title(candidate(MinOf(next_lines)))
        ELSE IF starts # {} THEN dedupe_repeated_title(SpanText(text, m_title_at(text, MinOf(starts))))
        ELSE Replace(Replace(filename, <<".", "p", "d", "f">>, <<>>), <<"-">>, <<" ">>)

(***************************************************************************)
(* Locating the sector and the sub-sector                                  *)
(***************************************************************************)
SectorLabel == <<<<"S", "e", "c", "t", "e", "u", "r">>, <<"é", "c", "o", "n", "o", "m", "i", "q", "u", "e">>, <<":">>>>

SubSectorLabel == <<<<"F", "i", "l", "i", "è", "r", "e", "s">>, <<"d", "e">>, <<"p", "r", "o", "d", "u", "c", "t", "i", "o", "n">>, <<":">>>>

\* the positions of the text where one of the words begins, letter case
\* ignored
StopsAt(text, stops) == {i \in 1..Len(text) : \E stop \in stops : CiAt(text, i, stop)}

\* the positions "$" matches at: the end of the text and a last line end
EndOf(text) == {Len(text) + 1} \cup (IF text # <<>> /\ text[Len(text)] = "\n" THEN {Len(text)} ELSE {})

\* the group (.+?)(?=...) taken after the blanks that follow position z:
\* ahead holds the positions where the lookahead succeeds and dotall tells
\* whether "." matches a line end.  The blanks are all skipped unless no
\* group can follow them; the group is the shortest text the lookahead
\* succeeds after.  The span of the group or <<>>.
m_group_after(text, z, ahead, dotall) ==
    LET Ends(g) == {c \in g..Len(text) : c + 1 \in ahead /\ (dotall \/ \A k \in g..c : text[k] # "\n")}
        gs == {g \in z..RunEnd(text, z, SpaceChars) : Ends(g) # {}}
    IN  IF z # 0 /\ gs # {} THEN <<LastOf(gs), MinOf(Ends(LastOf(gs)))>>
        ELSE <<>>

\* label\s*(.+?)(?=...) with IGNORECASE, matched from position a: the span
\* of group 1 or <<>>
m_value_at(text, a, label, ahead, dotall) == m_group_after(text, LabelEnd(text, a, label), ahead, dotall)

\* the value of the first match of the pattern in the text, None without
\* a match
m_value(text, label, ahead, dotall) ==
    LET starts == {a \in 1..Len(text) : m_value_at(text, a, label, ahead, dotall) # <<>>}
    IN  IF starts = {} THEN None
        ELSE Some(SpanText(text, m_value_at(text, MinOf(starts), label, ahead, dotall)))

strip_label_prefix(s) ==
    LET t == clean_text(s)
        sector == LabelEnd(t, 1, SectorLabel)
        sub == LabelEnd(t, 1, SubSectorLabel)
        after == IF sector # 0 THEN sector ELSE sub
    IN  IF after = 0 THEN Strip(t, SpaceChars)
        ELSE Strip(SubSeq(t, after, Len(t)), SpaceChars)

\* the sector searched in the full text before the left text
extract_sector_full_first(left_text, full_text) ==
    LET stops == {<<"F", "i", "l", "i", "è", "r", "e", "s">>, <<"A", "C", "T", "I", "V", "I", "T", "É">>, <<"A", "n", "a", "l", "y", "S", "e">>}
        m_sector == m_value(left_text, SectorLabel, StopsAt(left_text, stops) \cup EndOf(left_text), TRUE)
        m_sector_full == m_value(full_text, SectorLabel, StopsAt(full_text, stops), TRUE)
    IN  IF m_sector_full # None THEN strip_label_prefix(m_sector_full[1])
        ELSE IF m_sector # None THEN strip_label_prefix(m_sector[1])
        ELSE <<"C", "R", "I">>

extract_sector_from_layout(left_text, full_text) ==
    LET stops == {<<"F", "i", "l", "i", "è", "r", "e", "s">>, <<"A", "C", "T", "I", "V", "I", "T", "É">>, <<"A", "n", "a", "l", "y", "S", "e">>}
        m_sector == m_value(left_text, SectorLabel, StopsAt(left_text, stops) \cup EndOf(left_text), TRUE)
        m_sector_full == m_value(full_text, SectorLabel, StopsAt(full_text, stops), TRUE)
    IN  IF m_sector # None THEN strip_label_prefix(m_sector[1])
        ELSE IF m_sector_full # None THEN strip_label_prefix(m_sector_full[1])
        ELSE <<"C", "R", "I">>

\* a sub-sector locator that falls back on the default of the sector
extract_sub_sector_defaulting(right_text, full_text) ==
    LET stops == {<<"S", "e", "c", "t", "e", "u", "r">>, <<"A", "C", "T", "I", "V", "I", "T", "É">>, <<"A", "n", "a", "l", "y", "S", "e">>}
        m_sub == m_value(right_text, SubSectorLabel, StopsAt(right_text, stops) \cup EndOf(right_text), TRUE)
        m_sub_full == m_value(full_text, SubSectorLabel, StopsAt(full_text, stops), TRUE)
    IN  IF m_sub # None THEN Some(strip_label_prefix(m_sub[1]))
        ELSE IF m_sub_full # None THEN Some(strip_label_prefix(m_sub_full[1]))
        ELSE Some(<<"C", "R", "I">>)

\* None, or the sub-sector in a one-element sequence
extract_sub_sector_from_layout(right_text, full_text) ==
    LET stops == {<<"S", "e", "c", "t", "e", "u", "r">>, <<"A", "C", "T", "I", "V", "I", "T", "É">>, <<"A", "n", "a", "l", "y", "S", "e">>}
        m_sub == m_value(right_text, SubSectorLabel, StopsAt(right_text, stops) \cup EndOf(right_text), TRUE)
        m_sub_full == m_value(full_text, SubSectorLabel, StopsAt(full_text, stops), TRUE)
    IN  IF m_sub # None THEN Some(strip_label_prefix(m_sub[1]))
        ELSE IF m_sub_full # None THEN Some(strip_label_prefix(m_sub_full[1]))
        ELSE None

(***************************************************************************)
(* Locating the description and the province                               *)
(***************************************************************************)
\* the positions where a heading that ends a description begins: a line
\* end, blanks, then one of the heading words
HeadingsAt(text) ==
    {i \in 1..Len(text) :
        /\ text[i] = "\n"
        /\ LET j == RunEnd(text, i + 1, SpaceChars)
           IN  \/ \E h \in {<<"D", "É", "B", "O", "U", "C", "H", "É", "S">>,
                                    <<"D", "E", "B", "O", "U", "C", "H", "É", "S">>,
                                    <<"D", "É", "B", "O", "U", "C", "H", "E", "S">>,
                                    <<"D", "E", "B", "O", "U", "C", "H", "E", "S">>,
                                    <<"S", "U", "P", "E", "R", "F", "I", "C", "I", "E">>,
                                    <<"P", "R", "O", "G", "R", "A", "M", "M", "E">>,
                                    <<"C", "A", "P", "A", "C", "I", "T", "É">>,
                                    <<"C", "A", "P", "A", "C", "I", "T", "E">>,
                                    <<"E", "M", "P", "L", "O", "I", "S">>,
                                    <<"T", "R", "I">>,
                                    <<"P", "B", "P">>,
                                    <<"I", "N", "V", "E", "S", "T", "I", "S", "S", "E", "M", "E", "N", "T">>,
                                    <<"B", "E", "S", "O", "I", "N", "S">>} : CiAt(text, j, h)
               \/ \E h \in {<<<<"C", "o", "d", "e">>, <<"H", "S">>>>,
                                    <<<<"C", "o", "d", "e">>, <<"S", "H">>>>,
                                    <<<<"S", "u", "p">>, <<":">>>>,
                                    <<<<"L", "i", "e", "u">>, <<":">>>>,
                                    <<<<"W", "e", "b">>, <<":">>>>,
                                    <<<<"C", "o", "n", "t", "a", "c", "t">>, <<":">>>>} : LabelEnd(text, j, h) # 0
               \/ /\ CiAt(text, j, <<"P", "R", "O", "D", "U", "I", "T">>)
                  /\ j + 7 <= Len(text) /\ text[j + 7] \in SpaceChars
                  /\ CiAt(text, RunEnd(text, j + 7, SpaceChars), <<"P", "R", "I", "N", "C", "I", "P", "A", "L">>)}

\* the span from position a to the end of a group, <<>> without a group
SpanFrom(a, group) == IF group = <<>> THEN <<>> ELSE <<a, group[2]>>

\* (?:^|\n)\s*(?:Un|Une|Le|La|L')\s+(.+?)(?=heading|$) with IGNORECASE and
\* DOTALL matched from position a, ahead holding the positions of the
\* headings and of the end: the span of the whole match or <<>>
m_narr_at(text, a, ahead) ==
    LET j == RunEnd(text, a, SpaceChars)
        articles == {art \in {<<"U", "n">>, <<"U", "n", "e">>, <<"L", "e">>, <<"L", "a">>, <<"L", "'">>} :
                        /\ CiAt(text, j, art)
                        /\ j + Len(art) <= Len(text) /\ text[j + Len(art)] \in SpaceChars}
    IN  IF (a = 1 \/ text[a] = "\n") /\ articles # {}
        THEN SpanFrom(a, m_group_after(text, j + Len(CHOOSE art \in articles : TRUE) + 1, ahead, TRUE))
        ELSE <<>>

\* the first match of the narrative pattern among the starts, None without
\* a start
m_narr_first(text, starts, ahead) ==
    IF starts = {} THEN None ELSE Some(SpanText(text, m_narr_at(text, MinOf(starts), ahead)))

\* re.search of the narrative pattern, ahead as in m_narr_at
m_narr_in(text, ahead) == m_narr_first(text, {a \in 1..Len(text) : m_narr_at(text, a, ahead) # <<>>}, ahead)

m_narr(text) == m_narr_in(text, HeadingsAt(text) \cup EndOf(text))

\* clean_text of a value that was found
clean_found(m) == IF m = None THEN None ELSE Some(clean_text(m[1]))

\* None, or the description in a one-element sequence: the first of the
\* four searches that finds something
extract_description_from_layout(left_text, full_text) ==
    LET key == <<<<"D", "E", "S", "C", "R", "I", "P", "T", "I", "O", "N">>, <<"D", "U">>, <<"P", "R", "O", "J", "E", "T">>>>
    IN  clean_found(Search(<<m_value(left_text, key, HeadingsAt(left_text) \cup EndOf(left_text), TRUE),
                             m_value(full_text, key, HeadingsAt(full_text) \cup EndOf(full_text), TRUE),
                             m_narr(left_text),
                             m_narr(full_text)>>))

\* \b at the position between text[i - 1] and text[i]
WordBoundary(text, i) ==
    (i > 1 /\ i - 1 <= Len(text) /\ text[i - 1] \in WordChars) # (i <= Len(text) /\ text[i] \in WordChars)

\* \bword\b matched at position a, letter case ignored
WordAt(text, a, word) ==
    CiAt(text, a, word) /\ WordBoundary(text, a) /\ WordBoundary(text, a + Len(word))

\* None, or the province in a one-element sequence
extract_province(text) ==
    LET known_provinces == <<<<"B", "é", "n", "i", " ", "M", "e", "l", "l", "a", "l">>,
                           <<"A", "z", "i", "l", "a", "l">>,
                           <<"F", "q", "u", "i", "h", " ", "B", "e", "n", " ", "S", "a", "l", "a", "h">>,
                           <<"K", "h", "é", "n", "i", "f", "r", "a">>,
                           <<"K", "h", "o", "u", "r", "i", "b", "g", "a">>>>
        known == {k \in 1..Len(known_provinces) : \E a \in 1..Len(text) : WordAt(text, a, known_provinces[k])}
        stops == {<<"F", "u", "t", "u", "r", "e">>,
                  <<"Z", "A", "E">>,
                  <<"Z", "I">>,
                  <<"S", "u", "p">>,
                  <<"P", "R", "O", "G", "R", "A", "M", "M", "E">>,
                  <<"C", "A", "P", "A", "C", "I", "T", "É">>,
                  <<"C", "A", "P", "A", "C", "I", "T", "E">>,
                  <<"E", "M", "P", "L", "O", "I", "S">>,
                  <<"T", "R", "I">>,
                  <<"P", "B", "P">>,
                  <<"I", "N", "V", "E", "S", "T", "I", "S", "S", "E", "M", "E", "N", "T">>,
                  <<"B", "E", "S", "O", "I", "N", "S">>,
                  <<"W", "e", "b">>,
                  <<"C", "o", "n", "t", "a", "c", "t">>}
        ahead == {i \in 1..Len(text) : text[i] = "\n" \/ \E stop \in stops : WordAt(text, i, stop)}
                     \cup EndOf(text)
        m_loc == m_value(text, <<<<"L", "i", "e", "u">>, <<":">>>>, ahead, FALSE)
        loc_text == Strip(Split(clean_text(m_loc[1]), {";", "-"})[1], SpaceChars)
    IN  IF text = <<>> THEN None
        ELSE IF known # {} THEN Some(known_provinces[MinOf(known)])
        ELSE IF m_loc = None THEN None
        ELSE IF Len(loc_text) > 40 \/ \E i \in 1..Len(loc_text) : loc_text[i] \in Digits \cup {"%"} THEN None
        ELSE IF loc_text = <<>> THEN None
        ELSE Some(loc_text)

(***************************************************************************)
(* Locating the industrial zones                                           *)
(***************************************************************************)
\* the words that end the name of a zone
ZoneStops ==
    {<<"F", "u", "t", "u", "r", "e">>,
     <<"Z", "I">>,
     <<"Z", "A", "E">>,
     <<"S", "u", "p">>,
     <<"L", "i", "e", "u">>,
     <<"P", "R", "O", "G", "R", "A", "M", "M", "E">>,
     <<"C", "A", "P", "A", "C", "I", "T", "É">>,
     <<"C", "A", "P", "A", "C", "I", "T", "E">>,
     <<"E", "M", "P", "L", "O", "I", "S">>,
     <<"T", "R", "I">>,
     <<"P", "B", "P">>,
     <<"C", "A">>,
     <<"C", "h", "a", "i", "n", "e">>,
     <<"C", "h", "a", "i", "n", "e", "s">>,
     <<"C", "h", "a", "î", "n", "e">>,
     <<"C", "h", "a", "î", "n", "e", "s">>,
     <<"M", "a", "t", "é", "r", "i", "e", "l">>,
     <<"M", "a", "t", "e", "r", "i", "e", "l">>,
     <<"E", "q", "u", "i", "p", "e", "m", "e", "n", "t">>,
     <<"E", "q", "u", "i", "p", "e", "m", "e", "n", "t", "s">>,
     <<"E", "m", "b", "a", "l", "l", "a", "g", "e">>,
     <<"E", "m", "b", "a", "l", "l", "a", "g", "e", "s">>,
     <<"B", "E", "S", "O", "I", "N", "S">>,
     <<"W", "e", "b">>,
     <<"C", "o", "n", "t", "a", "c", "t">>}

\* the position after the opening words of the zone pattern p matched at
\* position a, letter case ignored; 0 when they are not there
zone_prefix_end(text, a, p) ==
    LET agro == {w \in {<<"A", "g", "r", "o", "p", "o", "l", "e">>,
                           <<"A", "g", "r", "o", "-", "p", "o", "l", "e">>,
                           <<"A", "g", "r", "o", "p", "ô", "l", "e">>,
                           <<"A", "g", "r", "o", "-", "p", "ô", "l", "e">>} : CiAt(text, a, w)}
        zi == RunEnd(text, a + 6, SpaceChars)
    IN  CASE p = 1 -> IF agro = {} THEN 0 ELSE a + Len(CHOOSE w \in agro : TRUE)
          [] p = 2 -> IF /\ CiAt(text, a, <<"F", "u", "t", "u", "r", "e">>)
                         /\ a + 6 <= Len(text) /\ text[a + 6] \in SpaceChars
                         /\ CiAt(text, zi, <<"Z", "I">>)
                      THEN zi + 2 ELSE 0
          [] p = 3 -> IF CiAt(text, a, <<"Z", "A", "E">>) /\ WordBoundary(text, a) THEN a + 3 ELSE 0
          [] p = 4 -> IF CiAt(text, a, <<"Z", "I">>) /\ WordBoundary(text, a) THEN a + 2 ELSE 0

\* what follows the opening words of a zone pattern matched from position
\* a, e being the position after them (0 when they are not there): blanks,
\* a letter, then the fewest characters (40 at most, letters, blanks and
\* hyphens) that a stop word, ";", a line end or the end of the text follows.
\* The span of the match or <<>>.
m_zone_after(text, a, e, ahead) ==
    LET f == RunEnd(text, e, SpaceChars)
        letters == LowerLetters \cup UpperLetters \cup DOMAIN AccentBase \cup PlainForeignLetters
        ks == {k \in 0..40 : /\ f + k <= Len(text)
                             /\ \A m \in 1..k : text[f + m] \in letters \cup SpaceChars \cup {"-"}
                             /\ f + k + 1 \in ahead}
    IN  IF e # 0 /\ f > e /\ f <= Len(text) /\ text[f] \in letters /\ ks # {}
        THEN <<a, f + MinOf(ks)>>
        ELSE <<>>

\* the zone pattern p matched from position a: the span of the match or <<>>
m_zone_at(text, a, p, ahead) == m_zone_after(text, a, zone_prefix_end(text, a, p), ahead)

\* re.finditer: the matches of the zone pattern p from position pos on,
\* from left to right, none overlapping another; zone_matches_from has the
\* span m of the first of them
RECURSIVE zone_matches(_, _, _, _)
zone_matches_from(text, p, m, ahead) == <<SpanText(text, m)>> \o zone_matches(text, p, m[2] + 1, ahead)

zone_matches(text, p, pos, ahead) ==
    LET starts == {a \in pos..Len(text) : m_zone_at(text, a, p, ahead) # <<>>}
    IN  IF starts = {} THEN <<>>
        ELSE zone_matches_from(text, p, m_zone_at(text, MinOf(starts), p, ahead), ahead)

trim_zone(match) ==
    LET punct == {" ", "-", ".", ",", ";", ":", "/", "\\"}
        z == Strip(clean_text(match), punct)
        stops_at == {i \in 1..Len(z) : \E stop \in ZoneStops : WordAt(z, i, stop)}
        tokens == Split(z, SpaceChars)
        named == \/ Len(tokens) >= 3 /\ CiEq(tokens[1], <<"F", "u", "t", "u", "r", "e">>) /\ CiEq(tokens[2], <<"z", "i">>)
                 \/ Len(tokens) >= 2 /\ CiEq(tokens[1], <<"z", "i">>)
                 \/ Len(tokens) >= 2 /\ CiEq(tokens[1], <<"z", "a", "e">>)
                 \/ Len(tokens[1]) >= 4 /\ CiEq(SubSeq(tokens[1], 1, 4), <<"a", "g", "r", "o">>)
    IN  IF z = <<>> THEN z
        ELSE IF Contains(z, <<" ", "-", " ">>)
        THEN (IF stops_at = {} THEN z ELSE Strip(SubSeq(z, 1, MinOf(stops_at) - 1), punct))
        ELSE IF named /\ Len(tokens) >= 3 THEN Join(SubSeq(tokens, 1, 3), <<" ">>)
        ELSE z

\* the zones found, each one trimmed
trimmed_zones(found) == [i \in 1..Len(found) |-> trim_zone(found[i])]

\* the trimmed zones in the order found, without the empty ones and without
\* those seen before
kept_zones(trimmed) ==
    LET kept == {i \in 1..Len(trimmed) : trimmed[i] # <<>> /\ \A j \in 1..(i - 1) : trimmed[j] # trimmed[i]}
    IN  [k \in 1..Cardinality(kept) |->
            trimmed[CHOOSE i \in kept : Cardinality({j \in kept : j <= i}) = k]]

\* "; ".join(zones) in a one-element sequence, None when there is no zone
joined_zones(zones) == IF zones = <<>> THEN None ELSE Some(Join(zones, <<";", " ">>))

\* None, or the zones joined by "; " in a one-element sequence
extract_industrial_zone(text) ==
    LET ahead == {i \in 1..Len(text) : text[i] \in {";", "\n"} \/ \E stop \in ZoneStops : WordAt(text, i, stop)}
                     \cup EndOf(text)
    IN  IF text = <<>> THEN None
        ELSE joined_zones(kept_zones(trimmed_zones(Flat([p \in 1..4 |-> zone_matches(text, p, 1, ahead)], 1, 4))))

(***************************************************************************)
(* Record assembly                                                         *)
(***************************************************************************)
\* project_reference of process_one_pdf: region-title-id, the title token
\* cut to 50 characters when the whole exceeds 100 characters
bk_reference(title, project_id) ==
    LET ref_title == normalize_for_reference(title)
        ref_region == normalize_for_reference(BK_REGION)
        reference == ref_region \o <<"-">> \o ref_title \o <<"-">> \o IntToStr(project_id)
    IN  IF Len(reference) > 100
        THEN ref_region \o <<"-">> \o SubSeq(ref_title, 1, IF Len(ref_title) < 50 THEN Len(ref_title) ELSE 50)
                 \o <<"-">> \o IntToStr(project_id)
        ELSE reference

\* the record process_one_pdf returns for a document with a full text
\* extract_fields: the numeric fields are searched in the full text, the
\* left text and the right text joined by line ends; the pages hold their
\* whole text in the left half (TextPage)
extract_fields(doc) ==
    LET full == doc.tokens
        left == doc.tokens
        right == <<>>
    IN  extract_numeric_fields(full \o left \o right)

bk_record(doc, project_id) ==
    LET fields == extract_fields(doc)
        est_mad == fields.estimated_investment_mad
    IN  [project_id |-> project_id,
         project_reference |-> bk_reference(doc.title, project_id),
         project_title |-> Some(doc.title),
         region |-> Some(BK_REGION),
         estimated_investment_mad |-> est_mad,
         min_investment_mad |-> min_investment_mad(est_mad),
         investment_range |-> investment_range_label(est_mad),
         payback_period_years |-> fields.payback_period_years,
         roi_estimated |-> fields.roi_estimated,
         required_land_area_m2 |-> fields.required_land_area_m2,
         pdf_url |-> doc.name,
         pdf_page_number |-> 1,
         source_type |-> Some(SOURCE_TYPE)]

\* a worker task that builds the record without looking at the full text
process_one_pdf_keep_empty(doc, project_id) == Some(bk_record(doc, project_id))

\* the worker task: None for a document without full text, else the record
process_one_pdf(doc, project_id) ==
    IF extract_text_with_layout(doc.pdf).full_text = <<>> THEN None
    ELSE Some(bk_record(doc, project_id))

\* what the project blocks of the extract_projects document yield, in page
\* order: an optional region, an optional title and the text of the block
\* ("Investissement potentiel (hors foncier) : 11 MDH  Retour sur
\* investissement (ROI) : 5 à 6 ans", "Investissement potentiel (hors
\* foncier) : 900000 DH", nothing)
MainProjects ==
    <<[region |-> Some(FES_REGION), title |-> Some(<<"H", "u", "i", "l", "e", " ", "d", "'", "o", "l", "i", "v", "e">>),
       tokens |-> <<Word("InvestissementPotentiel"), Word("colon"), Num(11, 0), Word("MDH"),
                    Word("RetourSurInvestissement"), Word("colon"), Num(5, 0), Word("a"), Num(6, 0), Word("ans")>>],
      [region |-> Some(BK_REGION), title |-> Some(<<"M", "i", "e", "l">>),
       tokens |-> <<Word("InvestissementPotentiel"), Word("colon"), Num(900000, 0), Word("DH")>>],
      [region |-> None, title |-> None, tokens |-> <<>>]>>

\* the record build_record assembles for the project of index project_index
build_record(project_index, start_page, proj) ==
    LET region_norm == normalize_for_reference(IF proj.region # None THEN proj.region[1] ELSE <<"U", "N", "K", "N", "O", "W", "N">>)
        title_norm == normalize_for_reference(IF proj.title # None THEN proj.title[1] ELSE <<"P", "R", "O", "J", "E", "T">>)
        est_mad == extract_estimated_investment_mad(proj.tokens)
        payback == extract_payback_period_years(proj.tokens)
        roi_est == roi_estimated_only(payback)
    IN  [project_id |-> project_index,
         project_reference |-> region_norm \o <<"-">> \o title_norm \o <<"-">> \o IntToStr(project_index),
         project_title |-> proj.title,
         region |-> proj.region,
         estimated_investment_mad |-> RoundOpt(est_mad),
         min_investment_mad |-> min_investment_mad(est_mad),
         investment_range |-> investment_range_label(est_mad),
         payback_period_years |-> RoundOpt(payback),
         roi_estimated |-> roi_est,
         required_land_area_m2 |-> None,
         pdf_url |-> 0,
         pdf_page_number |-> start_page,
         source_type |-> IF proj.region # None
                         THEN Some(EP_SOURCE_TYPE \o <<" ">> \o proj.region[1])
                         ELSE Some(EP_SOURCE_TYPE)]

(***************************************************************************)
(* Data frames and the persisted file                                      *)
(* A data frame is [columns, rows]; a cell of a column the frame does not  *)
(* have, or a NaN cell, is None.  A file is missing, corrupt (it exists    *)
(* and pandas cannot parse it) or a table.                                 *)
(***************************************************************************)
MissingFile == [st |-> "missing", columns |-> {}, rows |-> <<>>]

CorruptFile == [st |-> "corrupt", columns |-> {}, rows |-> <<>>]

TableFile(df) == [st |-> "table", columns |-> df.columns, rows |-> df.rows]

EmptyFrame == [columns |-> OUTPUT_COLUMNS, rows |-> <<>>]

Range(s) == {s[i] : i \in 1..Len(s)}

RECURSIVE MaxOf(_)
MaxOf(S) ==
    IF S = {} THEN 0
    ELSE LET x == CHOOSE y \in S : TRUE
             m == MaxOf(S \ {x})
         IN  IF x > m THEN x ELSE m

\* astype(str) of a cell holding text
CellStr(cell) == IF cell = None THEN NanStr ELSE cell[1]

safe_read_existing_output(file) ==
    IF file.st = "missing" THEN EmptyFrame
    ELSE IF file.st = "corrupt" THEN EmptyFrame
    ELSE [columns |-> file.columns, rows |-> file.rows]

\* a read that swallows the error without a message
read_warnings_silent(file) == {}

\* the messages _safe_read_existing_output prints
read_warnings(file) == IF file.st = "corrupt" THEN {"warning_cannot_read"} ELSE {}

\* the maximum taken after the rows of this source have been dropped
max_project_id_of_kept(df) ==
    LET ids == {df.rows[i].project_id : i \in {j \in 1..Len(df.rows) :
                    CellStr(df.rows[j].source_type) # SOURCE_TYPE}}
    IN  IF "project_id" \in df.columns /\ df.rows # <<>> THEN MaxOf(ids) ELSE 0

\* numbering that restarts at 1 whatever the file holds
max_project_id_zero(df) == 0

max_project_id(df) ==
    IF "project_id" \in df.columns /\ df.rows # <<>>
    THEN MaxOf({df.rows[i].project_id : i \in 1..Len(df.rows)})
    ELSE 0

\* a filter that drops nothing
remove_rows_keep_all(df) == df

remove_rows_for_this_source(df) ==
    LET other_source(r) == CellStr(r.source_type) # SOURCE_TYPE
        other_region(r) == CellStr(r.region) # BK_REGION
    IN  IF df.rows = <<>> THEN [columns |-> df.columns, rows |-> <<>>]
        ELSE IF "source_type" \in df.columns
             THEN [columns |-> df.columns, rows |-> SelectSeq(df.rows, other_source)]
        ELSE IF "region" \in df.columns
             THEN [columns |-> df.columns, rows |-> SelectSeq(df.rows, other_region)]
        ELSE df

ensure_columns(df) == [columns |-> OUTPUT_COLUMNS, rows |-> df.rows]

\* the rows left in the order the tasks completed
unsorted_rows(rows) == rows

\* list.sort(key=project_id): stable insertion in ascending project_id
RECURSIVE InsertRow(_, _)
InsertRow(sorted_rows, r) ==
    IF sorted_rows = <<>> THEN <<r>>
    ELSE IF Head(sorted_rows).project_id <= r.project_id
         THEN <<Head(sorted_rows)>> \o InsertRow(Tail(sorted_rows), r)
         ELSE <<r>> \o sorted_rows

RECURSIVE sort_rows(_)
sort_rows(rows) ==
    IF rows = <<>> THEN <<>>
    ELSE InsertRow(sort_rows(SubSeq(rows, 1, Len(rows) - 1)), rows[Len(rows)])

\* sorted(pdf_files): ascending path order
RECURSIVE InsertFile(_, _)
InsertFile(sorted_files, d) ==
    IF sorted_files = <<>> THEN <<d>>
    ELSE IF Head(sorted_files).name <= d.name
         THEN <<Head(sorted_files)>> \o InsertFile(Tail(sorted_files), d)
         ELSE <<d>> \o sorted_files

RECURSIVE sorted_files(_)
sorted_files(files) ==
    IF files = <<>> THEN <<>>
    ELSE InsertFile(sorted_files(SubSeq(files, 1, Len(files) - 1)), files[Len(files)])

\* glob.glob returns the files of the directory in an arbitrary order
glob(dir) ==
    {f \in [1..Cardinality(dir) -> dir] : \A i, j \in 1..Cardinality(dir) : f[i] = f[j] => i = j}

\* the errors a to_csv call can end with: none, errno 13 (the destination
\* is held open or not writable), errno 28 (the disk fills up and a
\* truncated file is left), errno 30 (read-only file system, nothing done)
WriteErrors == {"none", "EACCES", "ENOSPC", "EROFS"}

\* a writer without the alternate file: errno 13 propagates like the others
write_output_csv_no_fallback(df, err, file, file_new) ==
    IF err = "none"
    THEN [csv |-> TableFile(ensure_columns(df)), csv_new |-> file_new,
          wres |-> "ok", msgs |-> {"wrote"}]
    ELSE [csv |-> IF err = "ENOSPC" THEN CorruptFile ELSE file, csv_new |-> file_new,
          wres |-> "raised", msgs |-> {}]

\* _write_output_csv: the canonical file, the alternate file, how the call
\* ended and what it printed
write_output_csv(df, err, file, file_new) ==
    LET df_to_write == ensure_columns(df)
    IN  CASE err = "none" ->
               [csv |-> TableFile(df_to_write), csv_new |-> file_new,
                wres |-> "ok", msgs |-> {"wrote"}]
          [] err = "EACCES" ->
               [csv |-> file, csv_new |-> TableFile(df_to_write),
                wres |-> "fallback", msgs |-> {"wrote_new", "open_elsewhere"}]
          [] err = "ENOSPC" ->
               [csv |-> CorruptFile, csv_new |-> file_new,
                wres |-> "raised", msgs |-> {}]
          [] OTHER ->
               [csv |-> file, csv_new |-> file_new,
                wres |-> "raised", msgs |-> {}]

(***************************************************************************)
(* State                                                                   *)
(***************************************************************************)
VARIABLES
    csv,               \* the file OUTPUT_CSV (output_projects.csv)
    csv_new,           \* the file output_projects_new.csv next to it
    cache,             \* the PDF files of DOSSIER_CIBLE
    pc,                \* where process_pdfs is: "idle", "pool", "done", "failed"
    df_existing_full,  \* process_pdfs: the data frame read at the start
    next_id,           \* process_pdfs: global_max_id + 1
    df_kept,           \* process_pdfs: the rows of the other sources
    pdf_files,         \* process_pdfs: the sorted file list
    futures,           \* process_pdfs: the submitted tasks, in submission order
    found,             \* process_pdfs: what the read found: "missing", "corrupt", "table"
    taken,             \* process_pdfs: the futures as_completed has yielded, in that order
    extracted_rows,    \* process_pdfs: the rows collected so far
    df_out,            \* process_pdfs: the frame handed to _write_output_csv
    werr,              \* the error of the to_csv call on OUTPUT_CSV ("unset" before it)
    wres,              \* how _write_output_csv ended: "none", "ok", "fallback", "raised"
    writes,            \* number of to_csv calls on OUTPUT_CSV in this run
    log,               \* what this run printed
    fresh,             \* csv is what a completed run over the present cache wrote
    in_row,            \* this run started from such a file
    call,              \* the function applied to a text or a number, with its result
    site,              \* the web site collect_pdf_urls_from_site crawls
    queue,             \* collect_pdf_urls_from_site: the URLs to visit, first in first out
    visited,           \* collect_pdf_urls_from_site: the URLs taken from the queue and fetched
    pdf_urls,          \* collect_pdf_urls_from_site: the URLs of documents found
    requests,          \* the calls of session.get so far: [url, ok], ok FALSE when it raised
    crawl_pc           \* where collect_pdf_urls_from_site is: "idle", "loop", "returned"

vars == <<csv, csv_new, cache, pc, df_existing_full, found, next_id, df_kept, pdf_files,
          futures, taken, extracted_rows, df_out, werr, wres, writes, log, fresh, in_row, call,
          site, queue, visited, pdf_urls, requests, crawl_pc>>

crawl_vars == <<site, queue, visited, pdf_urls, requests, crawl_pc>>

\* collect_pdf_urls_from_site is not running
CrawlIdle ==
    /\ site = "none"
    /\ queue = <<>>
    /\ visited = {}
    /\ pdf_urls = {}
    /\ requests = <<>>
    /\ crawl_pc = "idle"

run_vars == <<df_existing_full, found, next_id, df_kept, pdf_files, futures, taken,
              extracted_rows, df_out, werr, wres, writes, log, in_row>>

\* a row of another source as extract_projects writes it
FesRow(id) == build_record(id, id + 1, [region |-> Some(FES_REGION), title |-> Some(<<"O", "l", "i", "v", "e">>), tokens |-> <<>>])

\* a row of this source as an earlier run of process_pdfs wrote it
OwnRow(id) == process_one_pdf(DocAppel, id)[1]

\* a row whose source_type cell is empty
UntaggedRow(id) == [OwnRow(id) EXCEPT !.source_type = None]

\* the files a run can find: none, an unreadable one, tables of both
\* sources, a table written before the source_type column existed
InitialFiles ==
    {MissingFile,
     CorruptFile,
     TableFile([columns |-> OUTPUT_COLUMNS, rows |-> <<FesRow(1), OwnRow(2)>>]),
     TableFile([columns |-> OUTPUT_COLUMNS, rows |-> <<OwnRow(1), UntaggedRow(2), FesRow(3)>>]),
     TableFile([columns |-> {"project_id", "region"},
                rows |-> <<[FesRow(2) EXCEPT !.source_type = None], UntaggedRow(1)>>])}

Init ==
    /\ csv \in InitialFiles
    /\ csv_new = MissingFile
    /\ cache \in CacheChoices
    /\ pc = "idle"
    /\ df_existing_full = EmptyFrame
    /\ found = "missing"
    /\ next_id = 1
    /\ df_kept = EmptyFrame
    /\ pdf_files = <<>>
    /\ futures = <<>>
    /\ taken = <<>>
    /\ extracted_rows = <<>>
    /\ df_out = EmptyFrame
    /\ werr = "unset"
    /\ wres = "none"
    /\ writes = 0
    /\ log = {}
    /\ fresh = FALSE
    /\ in_row = FALSE
    /\ call = [fn |-> "none", arg |-> None, res |-> None]
    /\ CrawlIdle

(***************************************************************************)
(* cri_benimallal.py                                                       *)
(***************************************************************************)
Terminal == pc \in {"idle", "done", "failed"}

\* __main__: the cache is filled by the downloader when it is empty
Download ==
    /\ Terminal
    /\ cache = {}
    /\ \E downloaded \in CacheChoices : cache' = downloaded
    /\ fresh' = FALSE
    /\ UNCHANGED <<csv, csv_new, pc, run_vars>>
    /\ UNCHANGED <<call, crawl_vars>>

\* a process_pdfs that writes the kept rows when it finds no PDF
StartRunThenWrite ==
    /\ Terminal
    /\ max_project_id(safe_read_existing_output(csv)) + Cardinality(cache) <= MaxId
    /\ df_existing_full' = safe_read_existing_output(csv)
    /\ found' = csv.st
    /\ next_id' = max_project_id(df_existing_full') + 1
    /\ df_kept' = remove_rows_for_this_source(df_existing_full')
    /\ log' = read_warnings(csv) \cup {"existing_rows"}
               \cup (IF cache = {} THEN {"no_pdfs"} ELSE {})
    /\ \E listing \in glob(cache) : pdf_files' = sorted_files(listing)
    /\ pc' = IF cache = {} THEN "done" ELSE "pool"
    /\ futures' = <<>>
    /\ taken' = <<>>
    /\ extracted_rows' = <<>>
    /\ df_out' = EmptyFrame
    /\ werr' = "unset"
    /\ wres' = "none"
    /\ writes' = 0
    /\ in_row' = fresh
    /\ csv' = IF cache = {} THEN TableFile(remove_rows_for_this_source(safe_read_existing_output(csv))) ELSE csv
    /\ UNCHANGED <<csv_new, cache, fresh>>
    /\ UNCHANGED <<call, crawl_vars>>

\* process_pdfs up to the sorted file list
StartRun ==
    /\ Terminal
    /\ max_project_id(safe_read_existing_output(csv)) + Cardinality(cache) <= MaxId
    /\ df_existing_full' = safe_read_existing_output(csv)
    /\ found' = csv.st
    /\ next_id' = max_project_id(df_existing_full') + 1
    /\ df_kept' = remove_rows_for_this_source(df_existing_full')
    /\ log' = read_warnings(csv) \cup {"existing_rows"}
               \cup (IF cache = {} THEN {"no_pdfs"} ELSE {})
    /\ \E listing \in glob(cache) : pdf_files' = sorted_files(listing)
    /\ pc' = IF cache = {} THEN "done" ELSE "pool"
    /\ futures' = <<>>
    /\ taken' = <<>>
    /\ extracted_rows' = <<>>
    /\ df_out' = EmptyFrame
    /\ werr' = "unset"
    /\ wres' = "none"
    /\ writes' = 0
    /\ in_row' = fresh
    /\ UNCHANGED <<csv, csv_new, cache, fresh>>
    /\ UNCHANGED <<call, crawl_vars>>

\* the id the task of the file at (0-based) position idx is given
reserved_id(first_id, idx) == first_id + idx

\* ex.submit(process_one_pdf, pdf_file, project_id): the task starts
Submit ==
    /\ pc = "pool"
    /\ Len(futures) < Len(pdf_files)
    /\ LET idx == Len(futures)
       IN  futures' = Append(futures, [pdf |-> pdf_files[idx + 1],
                                       project_id |-> reserved_id(next_id, idx),
                                       st |-> "running"])
    /\ UNCHANGED <<csv, csv_new, cache, pc, df_existing_full, found, next_id, df_kept,
                   pdf_files, taken, extracted_rows, df_out, werr, wres, writes, log,
                   fresh, in_row>>
    /\ UNCHANGED <<call, crawl_vars>>

\* a worker process finishes its task (with a record, None or an exception)
WorkerDone(i) ==
    /\ pc = "pool"
    /\ i \in 1..Len(futures)
    /\ futures[i].st = "running"
    /\ futures' = [futures EXCEPT ![i].st = "done"]
    /\ UNCHANGED <<csv, csv_new, cache, pc, df_existing_full, found, next_id, df_kept,
                   pdf_files, taken, extracted_rows, df_out, werr, wres, writes, log,
                   fresh, in_row>>
    /\ UNCHANGED <<call, crawl_vars>>

\* an exception that makes the loop lose what it had collected
collect_result_reset(rows, fut) ==
    IF fut.pdf.kind = "raise" THEN <<>>
    ELSE LET row == process_one_pdf(fut.pdf, fut.project_id)
         IN  IF row # None THEN Append(rows, row[1]) ELSE rows

\* the rows after fut.result() of future fut has been handled
collect_result(rows, fut) ==
    IF fut.pdf.kind = "raise" THEN rows
    ELSE LET row == process_one_pdf(fut.pdf, fut.project_id)
         IN  IF row # None THEN Append(rows, row[1]) ELSE rows

\* one turn of the as_completed loop
Collect(i) ==
    /\ pc = "pool"
    /\ Len(futures) = Len(pdf_files)
    /\ i \in 1..Len(futures)
    /\ i \notin Range(taken)
    /\ futures[i].st = "done"
    /\ taken' = Append(taken, i)
    /\ extracted_rows' = collect_result(extracted_rows, futures[i])
    /\ log' = log \cup (IF futures[i].pdf.kind = "raise" THEN {"worker_error"} ELSE {})
                  \cup (IF Len(taken') = Len(futures) THEN {"processed_all"} ELSE {})
    /\ UNCHANGED <<csv, csv_new, cache, pc, df_existing_full, found, next_id, df_kept,
                   pdf_files, futures, df_out, werr, wres, writes, fresh, in_row>>
    /\ UNCHANGED <<call, crawl_vars>>

\* the frame process_pdfs writes: the kept rows, then the new rows by id
merge_frames(kept, rows) ==
    [columns |-> OUTPUT_COLUMNS,
     rows |-> ensure_columns(kept).rows \o sort_rows(rows)]

\* a parent that does not wait for the tasks
pool_not_joined == TRUE

\* the as_completed loop has yielded every submitted future
pool_joined ==
    /\ Len(futures) = Len(pdf_files)
    /\ Len(taken) = Len(futures)

\* process_pdfs after the pool has been joined: sort, concatenate, write
MergeAndWrite ==
    /\ pc = "pool"
    /\ pool_joined
    /\ \E err \in WriteErrors :
          LET out == merge_frames(df_kept, extracted_rows)
              w == write_output_csv(out, err, csv, csv_new)
          IN  /\ extracted_rows' = sort_rows(extracted_rows)
              /\ df_out' = out
              /\ csv' = w.csv
              /\ csv_new' = w.csv_new
              /\ werr' = err
              /\ wres' = w.wres
              /\ log' = log \cup w.msgs
              /\ pc' = IF w.wres = "raised" THEN "failed" ELSE "done"
              /\ fresh' = CASE w.wres = "ok" -> TRUE
                            [] w.csv # csv -> FALSE
                            [] OTHER -> fresh
    /\ writes' = writes + 1
    /\ UNCHANGED <<cache, df_existing_full, found, next_id, df_kept, pdf_files, futures,
                   taken, in_row>>
    /\ UNCHANGED <<call, crawl_vars>>

(***************************************************************************)
(* extract_projects.py                                                     *)
(***************************************************************************)
\* main: the rows of the projects found, written over OUTPUT_CSV
main_rows(projs) == [i \in 1..Len(projs) |-> build_record(i, i + 1, projs[i])]

main_frame(rows) ==
    [columns |-> IF rows = <<>> THEN {} ELSE OUTPUT_COLUMNS, rows |-> rows]

Main ==
    /\ \E n \in 0..MaxProjects :
          csv' = TableFile(main_frame(main_rows(SubSeq(MainProjects, 1, n))))
    /\ fresh' = FALSE
    /\ UNCHANGED <<csv_new, cache, pc, run_vars>>
    /\ UNCHANGED <<call, crawl_vars>>

Next ==
    \/ Download
    \/ StartRun
    \/ Submit
    \/ \E i \in 1..Cardinality(Docs) : WorkerDone(i)
    \/ \E i \in 1..Cardinality(Docs) : Collect(i)
    \/ MergeAndWrite
    \/ Main

Spec == Init /\ [][Next]_vars

(***************************************************************************)
(* Properties                                                              *)
(***************************************************************************)
\* the rows of a row list that do not carry the source tag of cri_benimallal
OtherSourceRows(rows) ==
    LET other(r) == r.source_type = None \/ r.source_type[1] # SOURCE_TYPE
    IN  SelectSeq(rows, other)

\* what the worker task returns for each document that has a text, under
\* every id a run can give it
FreshRecord ==
    [doc \in {d \in Docs : d.kind = "text"}, id \in 1..(MaxId + Cardinality(Docs)) |-> process_one_pdf(doc, id)]

\* the records of the documents that have a text, in list order, numbered
\* from first by position in the list
RECURSIVE FreshRows(_, _)
FreshRows(files, first) ==
    IF files = <<>> THEN <<>>
    ELSE (IF Head(files).kind = "text"
          THEN <<FreshRecord[Head(files), first][1]>> ELSE <<>>)
         \o FreshRows(Tail(files), first + 1)

\* the step in which process_pdfs calls _write_output_csv
WriteStep == writes' = writes + 1

\* the file the data reached in that step
WrittenFile == IF wres = "ok" THEN csv ELSE csv_new

IdsOf(rows) == {rows[i].project_id : i \in 1..Len(rows)}

C2_UniquePositiveIds ==
    \A f \in {csv, csv_new} :
        /\ \A i, j \in 1..Len(f.rows) : f.rows[i].project_id = f.rows[j].project_id => i = j
        /\ \A i \in 1..Len(f.rows) : f.rows[i].project_id \in Nat \ {0}

C2_Witness ==
    /\ pc = "done"
    /\ wres = "ok"
    /\ fresh
    /\ Len(df_kept.rows) > 0
    /\ Len(csv.rows) > Len(df_kept.rows) + 1
    /\ Len(df_existing_full.rows) > Len(df_kept.rows)

\* C3: next_id is one more than the largest project_id of the prior
\* dataset, the rows of this source included (0 for a missing or unreadable
\* file), and the tasks get next_id, next_id + 1, ... in the sorted order
\* of the documents.
C3_IdAllocation ==
    [][/\ StartRun =>
            next_id' = 1 + (IF csv.st = "table" THEN MaxOf(IdsOf(csv.rows)) ELSE 0)
       /\ \A i \in 1..Len(futures') :
            /\ futures'[i].project_id = next_id' + (i - 1)
            /\ \A j \in 1..Len(futures') :
                  i < j => /\ futures'[i].pdf.name < futures'[j].pdf.name
                           /\ futures'[i].project_id < futures'[j].project_id
       /\ {futures'[i].pdf : i \in 1..Len(futures')} \subseteq cache']_vars

C3_Witness ==
    /\ Len(futures) >= 2
    /\ next_id > 1
    /\ \E i \in 1..Len(df_existing_full.rows) :
          /\ df_existing_full.rows[i].source_type = Some(SOURCE_TYPE)
          /\ df_existing_full.rows[i].project_id = next_id - 1

\* the rows of a row list that carry the source tag of cri_benimallal
OwnSourceRows(rows) ==
    LET own(r) == r.source_type = Some(SOURCE_TYPE)
    IN  SelectSeq(rows, own)

\* a run that wrote OUTPUT_CSV and had started from the file the previous
\* run over the same cache had written
SecondRunInARow == pc = "done" /\ wres = "ok" /\ in_row

\* C4 as stated: after the second of two runs in a row the dataset has as
\* many rows as after the first and the rows of this source differ from
\* those of the first run in project_id only, which does not decrease.
C4_SameFieldsButId ==
    SecondRunInARow =>
        LET before == OwnSourceRows(df_existing_full.rows)
            after == OwnSourceRows(df_out.rows)
        IN  /\ Len(df_out.rows) = Len(df_existing_full.rows)
            /\ Len(after) = Len(before)
            /\ \A i \in 1..Len(after) :
                  /\ after[i].project_id >= before[i].project_id
                  /\ [after[i] EXCEPT !.project_id = before[i].project_id] = before[i]

\* C4 amended: after the second of two runs in a row the dataset has as
\* many rows as after the first and the rows of this source differ from
\* those of the first run only in project_id, which does not decrease, and
\* in project_reference, which is rebuilt around the new project_id.
C4_SameFieldsButIdAndReference ==
    SecondRunInARow =>
        LET before == OwnSourceRows(df_existing_full.rows)
            after == OwnSourceRows(df_out.rows)
        IN  /\ Len(df_out.rows) = Len(df_existing_full.rows)
            /\ Len(after) = Len(before)
            /\ \A i \in 1..Len(after) :
                  /\ after[i].project_id >= before[i].project_id
                  /\ [after[i] EXCEPT !.project_id = before[i].project_id,
                                      !.project_reference = before[i].project_reference]
                        = before[i]
                  /\ after[i].project_reference
                        = bk_reference(after[i].project_title[1], after[i].project_id)

C4_Witness ==
    /\ SecondRunInARow
    /\ Len(OwnSourceRows(df_out.rows)) >= 2
    /\ Len(df_kept.rows) >= 1
    /\ OwnSourceRows(df_out.rows)[1].project_id > OwnSourceRows(df_existing_full.rows)[1].project_id

\* C5: a run of extract_projects.main leaves in the persisted dataset every
\* row of another source (a row tagged by cri_benimallal whose tag none of
\* the rows of this run carries), unchanged.
C5_MainKeepsOtherSources ==
    [][Main =>
          \A i \in 1..Len(csv.rows) :
              (/\ csv.rows[i].source_type = Some(SOURCE_TYPE)
               /\ \A j \in 1..Len(csv'.rows) : csv'.rows[j].source_type # Some(SOURCE_TYPE))
              => csv.rows[i] \in Range(csv'.rows)]_vars

\* C6: the id of each task is next_id plus the position of its document in
\* the sorted list, from submission on, and the frame written is the kept
\* rows followed by the records in ascending project_id, the same for
\* every order in which the tasks complete and are collected.
C6_CompletionOrderIrrelevant ==
    /\ \A i \in 1..Len(futures) :
          /\ futures[i].project_id = next_id + (i - 1)
          /\ futures[i].pdf = pdf_files[i]
    /\ \A k \in 1..Len(extracted_rows) :
          \E i \in Range(taken) :
              /\ extracted_rows[k].project_id = futures[i].project_id
              /\ extracted_rows[k].pdf_url = futures[i].pdf.name
    /\ writes = 1 =>
          /\ df_out.rows = df_kept.rows \o FreshRows(pdf_files, next_id)
          /\ \A a, b \in (Len(df_kept.rows) + 1)..Len(df_out.rows) :
                a < b => df_out.rows[a].project_id < df_out.rows[b].project_id

C6_Witness ==
    /\ pc = "done"
    /\ writes = 1
    /\ \E a, b \in 1..Len(taken) :
          /\ a < b
          /\ taken[a] > taken[b]
          /\ futures[taken[a]].pdf.kind = "text"
          /\ futures[taken[b]].pdf.kind = "text"

\* C7: when the task of a document raised, the run still reaches the write
\* (it can only fail on a write error), the error is logged, the frame
\* written holds the record of every document that produced one and no
\* record under the id reserved for the failed document.
C7_WorkerErrorIsolated ==
    /\ pc = "failed" => werr \in {"ENOSPC", "EROFS"}
    /\ (pc \in {"done", "failed"} /\ \E i \in 1..Len(futures) : futures[i].pdf.kind = "raise") =>
          /\ writes = 1
          /\ "worker_error" \in log
          /\ \A i \in 1..Len(futures) :
                /\ futures[i].pdf.kind = "text" =>
                      process_one_pdf(futures[i].pdf, futures[i].project_id)[1] \in Range(df_out.rows)
                /\ futures[i].pdf.kind = "raise" =>
                      \A k \in 1..Len(df_out.rows) :
                          df_out.rows[k].project_id # futures[i].project_id

C7_Witness ==
    /\ pc = "done"
    /\ wres = "ok"
    /\ "worker_error" \in log
    /\ Len(df_out.rows) >= Len(df_kept.rows) + 2
    /\ csv.rows = df_out.rows

\* C8: a run calls to_csv on OUTPUT_CSV at most once, only when every
\* submitted task has completed; the dataset files change only in that
\* step of the parent (or by extract_projects.main), never in a step of a
\* worker task.
C8_SingleWriteAfterJoin ==
    [][/\ writes' <= 1
       /\ writes' = 1 =>
             /\ Len(futures') = Len(pdf_files')
             /\ \A i \in 1..Len(futures') : futures'[i].st = "done"
       /\ (csv' # csv \/ csv_new' # csv_new) => (WriteStep \/ Main)
       /\ futures' # futures => (csv' = csv /\ csv_new' = csv_new /\ writes' <= writes)]_vars

C8_Witness ==
    /\ pc = "done"
    /\ writes = 1
    /\ Len(futures) = Cardinality(Docs)
    /\ csv.rows = df_out.rows
    /\ df_out.rows # <<>>

UnreadableTreatedAsEmpty ==
    /\ df_existing_full.rows = <<>>
    /\ df_kept.rows = <<>>
    /\ next_id = 1
    /\ "warning_cannot_read" \in log
    /\ pc = "failed" => werr \in {"ENOSPC", "EROFS"}

\* C10 as stated: a run that found OUTPUT_CSV unreadable treats it as
\* empty (no kept rows, next id 1), warns, does not abort, and writes
\* exactly the freshly extracted rows.
C10_UnreadableThenFreshRowsWritten ==
    found = "corrupt" =>
        /\ UnreadableTreatedAsEmpty
        /\ pc \in {"done", "failed"} =>
              /\ writes = 1
              /\ df_out.rows = FreshRows(pdf_files, 1)

\* C10 amended: a run that found OUTPUT_CSV unreadable treats it as empty
\* (no kept rows, next id 1), warns, does not abort, and, when the cache
\* holds at least one PDF, writes exactly the freshly extracted rows; with
\* an empty cache it writes nothing.
C10_UnreadableThenFreshRowsIfAnyPdf ==
    found = "corrupt" =>
        /\ UnreadableTreatedAsEmpty
        /\ pc \in {"done", "failed"} =>
              IF pdf_files # <<>>
              THEN /\ writes = 1
                   /\ df_out.rows = FreshRows(pdf_files, 1)
              ELSE /\ writes = 0
                   /\ wres = "none"

C10_Witness ==
    /\ found = "corrupt"
    /\ pc = "done"
    /\ wres = "ok"
    /\ Len(df_out.rows) >= 2
    /\ csv.rows = df_out.rows

\* the shapes of PDF file the extraction is examined on
PdfShapes ==
    {[opens |-> FALSE, pages |-> <<>>], PdfOf(<<>>), PdfOf(<<BlankPage>>), PdfOf(<<TextPage(<<" ", "\n">>)>>),
     PdfOf(<<RaisingPage>>), PdfOf(<<TextPage(AppelTitle), RaisingPage>>),
     PdfOf(<<BlankPage, TextPage(<<"\t">>), TextPage(AppelTitle)>>),
     PdfOf(<<TextPage(AppelTitle)>>), PdfOf(<<BlankPage, TextPage(SechageTitle)>>),
     PdfOf(<<TextPage(AppelTitle), TextPage(SechageTitle), RaisingPage>>)}

\* the document cannot be read, has no page, or has nothing but white space
\* on its first two pages
NoFullText(pdf) ==
    \/ ~pdf.opens
    \/ pdf.pages = <<>>
    \/ \E i \in 1..Len(pdf.pages) : i <= 2 /\ pdf.pages[i].raises
    \/ \A i \in 1..Len(pdf.pages) : i <= 2 => Range(pdf.pages[i].text) \subseteq SpaceChars

\* C11: a document without full text (unreadable, no page, no text on the
\* pages read) yields no record: the worker task returns None for it, and
\* the dataset a finished run wrote has no row of this source for it.
C11_EmptyDocumentNoRecord ==
    /\ \A pdf \in PdfShapes : \A id \in 1..MaxId :
          NoFullText(pdf) =>
             /\ extract_text_with_layout(pdf).full_text = <<>>
             /\ process_one_pdf([DocAppel EXCEPT !.pdf = pdf], id) = None
    /\ pc = "done" =>
          \A i \in 1..Len(futures) :
              NoFullText(futures[i].pdf.pdf) =>
                 \A k \in 1..Len(WrittenFile.rows) :
                     WrittenFile.rows[k].source_type = Some(SOURCE_TYPE) =>
                        /\ WrittenFile.rows[k].pdf_url # futures[i].pdf.name
                        /\ WrittenFile.rows[k].project_id # futures[i].project_id

C11_Witness ==
    /\ pc = "done"
    /\ wres = "ok"
    /\ \E i \in 1..Len(futures) : futures[i].pdf = DocEmpty
    /\ \E k \in 1..Len(csv.rows) : csv.rows[k].pdf_url = DocSechage.name
    /\ \E pdf \in PdfShapes : NoFullText(pdf) /\ pdf.opens /\ Len(pdf.pages) = 3

(***************************************************************************)
(* Locating the projects of a document that holds many                     *)
(***************************************************************************)
\* the pages of the document with their numbers from 1, "" for a page
\* without text
extract_text_per_page(pdf) == [i \in 1..Len(pdf.pages) |-> [page_num |-> i, text |-> pdf.pages[i].text]]

\* r"PROJET\s+N[°\s]*[A-Za-z]*[\-\s]*\d+" with IGNORECASE, matched from
\* position a
m_projet_n_at(text, a) ==
    LET n == RunEnd(text, a + 6, SpaceChars)
        s1 == RunEnd(text, n + 1, SpaceChars \cup {"°"})
        s2 == RunEnd(text, s1, LowerLetters \cup UpperLetters)
        s3 == RunEnd(text, s2, SpaceChars \cup {"-"})
    IN  /\ CiAt(text, a, <<"P", "R", "O", "J", "E", "T">>)
        /\ n > a + 6
        /\ CiAt(text, n, <<"N">>)
        /\ s3 <= Len(text)
        /\ text[s3] \in Digits

\* r"PROJET\s*[:\-]" with IGNORECASE, matched from position a
m_projet_sep_at(text, a) ==
    LET s == RunEnd(text, a + 6, SpaceChars)
    IN  /\ CiAt(text, a, <<"P", "R", "O", "J", "E", "T">>)
        /\ s <= Len(text)
        /\ text[s] \in {":", "-"}

\* sorted(q) on a list of numbers
sorted(q) ==
    [k \in 1..Len(q) |-> MinOf({x \in Range(q) : Cardinality({i \in 1..Len(q) : q[i] <= x}) >= k})]

\* sorted(set(q))
sorted_set(q) ==
    [k \in 1..Cardinality(Range(q)) |-> CHOOSE x \in Range(q) : Cardinality({y \in Range(q) : y <= x}) = k]

find_project_start_pages_with_cover(pages_text) ==
    LET page_nums(pages) == [i \in 1..Len(pages) |-> pages[i].page_num]
        starts == SelectSeq(pages_text, LAMBDA pg : \E a \in 1..Len(pg.text) : m_projet_n_at(pg.text, a))
    IN  sorted(page_nums(starts))

find_project_start_pages(pages_text) ==
    LET page_nums(pages) == [i \in 1..Len(pages) |-> pages[i].page_num]
        starts == SelectSeq(pages_text,
                            LAMBDA pg : /\ pg.page_num # 1
                                        /\ \E a \in 1..Len(pg.text) : m_projet_n_at(pg.text, a))
        generic == SelectSeq(pages_text,
                             LAMBDA pg : /\ pg.page_num # 1
                                         /\ \E a \in 1..Len(pg.text) : m_projet_sep_at(pg.text, a)
                                         /\ \/ Contains(pg.text, <<"F", "I", "L", "I", "È", "R", "E">>)
                                            \/ Contains(pg.text, <<"F", "I", "L", "I", "E", "R", "E">>)
                                            \/ Contains(pg.text, <<"D", "E", "S", "C", "R", "I", "P", "T", "I", "O", "N">>))
    IN  IF starts # <<>> THEN sorted(page_nums(starts)) ELSE sorted_set(page_nums(generic))

get_project_text_block_to_next(pages_text, start_page) ==
    LET starts == find_project_start_pages(pages_text)
        block == SelectSeq(pages_text,
                           LAMBDA pg : \/ pg.page_num = start_page
                                       \/ pg.page_num = start_page + 1 /\ pg.page_num \notin Range(starts))
    IN  Join([i \in 1..Len(block) |-> block[i].text], <<"\n">>)

get_project_text_block(pages_text, start_page) ==
    LET block == SelectSeq(pages_text, LAMBDA pg : pg.page_num = start_page \/ pg.page_num = start_page + 1)
    IN  Join([i \in 1..Len(block) |-> block[i].text], <<"\n">>)

\* the glyphs in reading order: list.sort on (round(c["top"], 1), c["x0"]),
\* which keeps the order of the glyphs whose keys are equal.  Coordinates
\* are whole numbers of half points, which round(_, 1) leaves as they are.
sort_chars(chars) ==
    LET Before(i, j) == \/ chars[i].top < chars[j].top
                        \/ chars[i].top = chars[j].top /\ chars[i].x0 < chars[j].x0
                        \/ chars[i].top = chars[j].top /\ chars[i].x0 = chars[j].x0 /\ i < j
    IN  [k \in 1..Len(chars) |->
            chars[CHOOSE i \in 1..Len(chars) : Cardinality({j \in 1..Len(chars) : Before(j, i)}) = k - 1]]

\* the text of the glyphs of one column: a line end before a glyph more
\* than 3 points lower than the one before, else a space before a glyph
\* more than CHAR_GAP_SPACE_THRESHOLD = 2.5 points to the right of it
glyph_text(left_chars) ==
    Flat([k \in 1..Len(left_chars) |->
             IF k = 1 THEN <<left_chars[1].text>>
             ELSE IF left_chars[k].top - left_chars[k - 1].top > 6 THEN <<"\n", left_chars[k].text>>
             ELSE IF left_chars[k].x0 - left_chars[k - 1].x1 > 5 THEN <<" ", left_chars[k].text>>
             ELSE <<left_chars[k].text>>],
         1, Len(left_chars))

\* what one page adds to parts: nothing, or one text
left_column_parts(page) ==
    LET x_max_left == page.width \div 2
        chars == IF page.chars = None THEN <<>> ELSE page.chars[1]
        left_chars == sort_chars(SelectSeq(chars, LAMBDA c : c.x1 <= x_max_left))
    IN  IF chars = <<>> THEN <<Strip(page.text, SpaceChars)>>
        ELSE IF left_chars = <<>> THEN <<>>
        ELSE <<Strip(Replace(glyph_text(left_chars), <<" ", "\n", " ">>, <<"\n">>), SpaceChars)>>

extract_text_from_left_column(pdf, start_page, num_pages) ==
    LET page_idxs == SelectSeq([i \in 1..num_pages |-> start_page + i - 1], LAMBDA p : p >= 1 /\ p <= Len(pdf.pages))
        parts == Flat([k \in 1..Len(page_idxs) |-> left_column_parts(pdf.pages[page_idxs[k]])], 1, Len(page_idxs))
    IN  Join(parts, <<"\n">>)

(***************************************************************************)
(* The texts the numeric extraction is examined on.  A text is made of an  *)
(* investment part, an area part and a return part; each part carries,     *)
(* next to its tokens, the amounts written in it (in MAD, m² or as read),  *)
(* None for what it does not hold; ranges tells which of the KDHS and MDH  *)
(* amounts is written as a range.                                          *)
(***************************************************************************)
InvPart(tokens, kdhs, mdh, labelled, ca, standalone, ranges) ==
    [tokens |-> tokens, kdhs |-> kdhs, mdh |-> mdh, labelled |-> labelled, ca |-> ca,
     standalone |-> standalone, ranges |-> ranges]

Amount(n) == Some(Dec(n, 0))

InvParts ==
    {InvPart(<<>>, None, None, None, None, None, {}),
     \* "500 KDHS"
     InvPart(<<Num(500, 0), Word("KDHS")>>, Amount(500000), None, None, None, None, {}),
     \* "100 à 300 KDHS"
     InvPart(<<Num(100, 0), Word("a"), Num(300, 0), Word("KDHS")>>, Amount(200000), None, None, None, None, {"KDHS"}),
     \* "1,5 - 2 K D H S"
     InvPart(<<Num(1, 500), Word("dash"), Num(2, 0), Spaced(Word("KDHS"))>>, Amount(1750), None, None, None, None, {"KDHS"}),
     \* "20 - 30 MDH"
     InvPart(<<Num(20, 0), Word("dash"), Num(30, 0), Word("MDH")>>, None, Amount(25000000), None, None, None, {"MDH"}),
     \* "50 - 75 Mn M D H S"
     InvPart(<<Num(50, 0), Word("dash"), Num(75, 0), Word("Mn"), Spaced(Word("MDH"))>>, None, Amount(62500000), None, None, None, {"MDH"}),
     \* "1,5 à 2,5 MDH"
     InvPart(<<Num(1, 500), Word("a"), Num(2, 500), Word("MDH")>>, None, Amount(2000000), None, None, None, {"MDH"}),
     \* "12 MDH"
     InvPart(<<Num(12, 0), Word("MDH")>>, None, Amount(12000000), None, None, None, {}),
     \* "INVESTISSEMENT : 5 MDH"
     InvPart(<<Word("INVESTISSEMENT"), Word("colon"), Num(5, 0), Word("MDH")>>, None, Amount(5000000), None, None, None, {}),
     \* "INVESTISSEMENT 20,001 Mn MDH"
     InvPart(<<Word("INVESTISSEMENT"), Num(20, 1), Word("Mn"), Word("MDH")>>, None, Amount(20001000), None, None, None, {}),
     \* "500 KDHS  12 MDH"
     InvPart(<<Num(500, 0), Word("KDHS"), Num(12, 0), Word("MDH")>>, Amount(500000), Amount(12000000), None, None, None, {}),
     \* "12 MDH  100 - 300 KDHS"
     InvPart(<<Num(12, 0), Word("MDH"), Num(100, 0), Word("dash"), Num(300, 0), Word("KDHS")>>,
             Amount(200000), Amount(12000000), None, None, None, {"KDHS"}),
     \* "500 KDHS  20 - 30 MDH"
     InvPart(<<Num(500, 0), Word("KDHS"), Num(20, 0), Word("dash"), Num(30, 0), Word("MDH")>>,
             Amount(500000), Amount(25000000), None, None, None, {"MDH"}),
     \* "20 - 30 MDH  100 - 300 KDHS"
     InvPart(<<Num(20, 0), Word("dash"), Num(30, 0), Word("MDH"), Num(100, 0), Word("dash"), Num(300, 0), Word("KDHS")>>,
             Amount(200000), Amount(25000000), None, None, None, {"KDHS", "MDH"}),
     \* "- 150000 DHS - CA : 200000 DHS"
     InvPart(<<Word("dash"), Num(150000, 0), Word("DHS"), Word("dash"), Word("CA"), Word("colon"), Num(200000, 0), Word("DHS")>>,
             None, None, None, Amount(150000), Amount(150000), {}),
     \* "INVESTISSEMENT : 100000 DH"
     InvPart(<<Word("INVESTISSEMENT"), Word("colon"), Num(100000, 0), Word("DH")>>,
             None, None, Amount(100000), None, Amount(100000), {}),
     \* "INVESTISSEMENT : 100000 DHS  - 150000 DHS - CA"
     InvPart(<<Word("INVESTISSEMENT"), Word("colon"), Num(100000, 0), Word("DHS"), Word("dash"), Num(150000, 0), Word("DHS"),
               Word("dash"), Word("CA")>>,
             None, None, Amount(100000), Amount(150000), Amount(100000), {}),
     \* "Loyer 900 DHS  INVESTISSEMENT : 100000 DHS"
     InvPart(<<Word("word"), Num(900, 0), Word("DHS"), Word("INVESTISSEMENT"), Word("colon"), Num(100000, 0), Word("DHS")>>,
             None, None, Amount(100000), None, Amount(900), {}),
     \* "Budget 1234,56 D H S"
     InvPart(<<Word("word"), Num(1234, 560), Spaced(Word("DHS"))>>, None, None, None, None, Some(Dec(1234, 560)), {}),
     \* "Budget 4999999,999 DH"
     InvPart(<<Word("word"), Num(4999999, 999), Word("DH")>>, None, None, None, None, Some(Dec(4999999, 999)), {})}

\* m2_range is the mean of a range written in m², m2_single a single value
\* in m², ha the value written in hectares (the mean for a range) in m²
AreaPart(tokens, m2_range, m2_single, ha) ==
    [tokens |-> tokens, m2_range |-> m2_range, m2_single |-> m2_single, ha |-> ha]

AreaParts ==
    {AreaPart(<<>>, None, None, None),
     \* "Sup : 500 - 700 m²"
     AreaPart(<<Word("Sup"), Word("colon"), Num(500, 0), Word("dash"), Num(700, 0), Word("m2")>>, Amount(600), None, None),
     \* "Sup 500 m² à 701 m²"
     AreaPart(<<Word("Sup"), Num(500, 0), Word("m2"), Word("a"), Num(701, 0), Word("m2")>>, Some(Dec(600, 500)), None, None),
     \* "Sup : 1200 m²"
     AreaPart(<<Word("Sup"), Word("colon"), Num(1200, 0), Word("m2")>>, None, Amount(1200), None),
     \* "Sup : 3 Ha"
     AreaPart(<<Word("Sup"), Word("colon"), Num(3, 0), Word("Ha")>>, None, None, Amount(30000)),
     \* "Sup - 2,5Ha"
     AreaPart(<<Word("Sup"), Word("dash"), Num(2, 500), Glued(Word("Ha"))>>, None, None, Amount(25000)),
     \* "Sup : 2 - 5 Ha"
     AreaPart(<<Word("Sup"), Word("colon"), Num(2, 0), Word("dash"), Num(5, 0), Word("Ha")>>, None, None, Amount(35000)),
     \* "Sup : 2 - 5Ha"
     AreaPart(<<Word("Sup"), Word("colon"), Num(2, 0), Word("dash"), Num(5, 0), Glued(Word("Ha"))>>, None, None, Amount(35000)),
     \* "Sup : 2,5 à 3,5Ha"
     AreaPart(<<Word("Sup"), Word("colon"), Num(2, 500), Word("a"), Num(3, 500), Glued(Word("Ha"))>>, None, None, Amount(30000)),
     \* "Sup : 1200 m²  Sup : 3 Ha"
     AreaPart(<<Word("Sup"), Word("colon"), Num(1200, 0), Word("m2"), Word("Sup"), Word("colon"), Num(3, 0), Word("Ha")>>,
              None, Amount(1200), Amount(30000)),
     \* "Sup : 3 Ha  Sup : 500 - 700 m²"
     AreaPart(<<Word("Sup"), Word("colon"), Num(3, 0), Word("Ha"), Word("Sup"), Word("colon"), Num(500, 0), Word("dash"),
                Num(700, 0), Word("m2")>>, Amount(600), None, Amount(30000)),
     \* "Sup : 1200 m²  Sup : 2 à 5 Ha"
     AreaPart(<<Word("Sup"), Word("colon"), Num(1200, 0), Word("m2"), Word("Sup"), Word("colon"), Num(2, 0), Word("a"),
                Num(5, 0), Word("Ha")>>, None, Amount(1200), Amount(35000))}

\* rate is the rate written after TRI (the mean for a range), payback the
\* years written after PBP or ROI
ReturnPart(tokens, rate, payback) == [tokens |-> tokens, rate |-> rate, payback |-> payback]

ReturnParts ==
    {ReturnPart(<<>>, None, None),
     \* "TRI 12 %"
     ReturnPart(<<Word("TRI"), Num(12, 0), Word("pct")>>, Amount(12), None),
     \* "TRI moyen : 15 - 20 %"
     ReturnPart(<<Word("TRI"), Word("moyen"), Word("colon"), Num(15, 0), Word("dash"), Num(20, 0), Word("pct")>>,
                Some(Dec(17, 500)), None),
     \* "T R I : 7"
     ReturnPart(<<Spaced(Word("TRI")), Word("colon"), Num(7, 0)>>, Amount(7), None),
     \* "TRI 95 %"
     ReturnPart(<<Word("TRI"), Num(95, 0), Word("pct")>>, Amount(95), None),
     \* "TRI : 100 %"
     ReturnPart(<<Word("TRI"), Word("colon"), Num(100, 0), Word("pct")>>, Amount(100), None),
     \* "TRI 150 %"
     ReturnPart(<<Word("TRI"), Num(150, 0), Word("pct")>>, Amount(150), None),
     \* "TRI 0 %"
     ReturnPart(<<Word("TRI"), Num(0, 0), Word("pct")>>, Amount(0), None),
     \* "PBP : 4 - 5 ans"
     ReturnPart(<<Word("PBP"), Word("colon"), Num(4, 0), Word("dash"), Num(5, 0), Word("ans")>>, None, Some(Dec(4, 500))),
     \* "P B P 8 ans"
     ReturnPart(<<Spaced(Word("PBP")), Num(8, 0), Word("ans")>>, None, Amount(8)),
     \* "PBP : 0 ans"
     ReturnPart(<<Word("PBP"), Word("colon"), Num(0, 0), Word("ans")>>, None, Amount(0)),
     \* "ROI : 4 - 5ans"
     ReturnPart(<<Word("ROI"), Word("colon"), Num(4, 0), Word("dash"), Num(5, 0), Glued(Word("ans"))>>, None, Some(Dec(4, 500))),
     \* "TRI 12 %  PBP : 5 ans"
     ReturnPart(<<Word("TRI"), Num(12, 0), Word("pct"), Word("PBP"), Word("colon"), Num(5, 0), Word("ans")>>,
                Amount(12), Amount(5))}

\* the texts of a BK document
BkTexts ==
    {[type |-> "bk_text", inv |-> inv, area |-> area, ret |-> ret,
      tokens |-> inv.tokens \o area.tokens \o ret.tokens] :
        inv \in InvParts, area \in AreaParts, ret \in ReturnParts}

\* the parts of the text of a project block of extract_projects.py: an
\* amount after "Investissement potentiel (...)" and years after "Retour
\* sur investissement (...)"; amount is what the text says in MAD
EpInvParts ==
    {[tokens |-> <<>>, amount |-> None],
     \* "Investissement potentiel (hors foncier) : 11 MDH"
     [tokens |-> <<Word("InvestissementPotentiel"), Word("colon"), Num(11, 0), Word("MDH")>>, amount |-> Amount(11000000)],
     \* "... - 4,999 MDH"
     [tokens |-> <<Word("InvestissementPotentiel"), Word("dash"), Num(4, 999), Word("MDH")>>, amount |-> Amount(4999000)],
     \* "... : 20 MDH"
     [tokens |-> <<Word("InvestissementPotentiel"), Word("colon"), Num(20, 0), Word("MDH")>>, amount |-> Amount(20000000)],
     \* "... : 900000 DH"
     [tokens |-> <<Word("InvestissementPotentiel"), Word("colon"), Num(900000, 0), Word("DH")>>, amount |-> Amount(900000)],
     \* "... : 1234,56 DH"
     [tokens |-> <<Word("InvestissementPotentiel"), Word("colon"), Num(1234, 560), Word("DH")>>, amount |-> Some(Dec(1234, 560))],
     \* "... : 4999999,999 DH"
     [tokens |-> <<Word("InvestissementPotentiel"), Word("colon"), Num(4999999, 999), Word("DH")>>,
      amount |-> Some(Dec(4999999, 999))],
     \* "... : 20000000,004 DH"
     [tokens |-> <<Word("InvestissementPotentiel"), Word("colon"), Num(20000000, 4), Word("DH")>>,
      amount |-> Some(Dec(20000000, 4))]}

EpReturnParts ==
    {[tokens |-> <<>>, payback |-> None],
     \* "Retour sur investissement (ROI) : 5 à 6 ans"
     [tokens |-> <<Word("RetourSurInvestissement"), Word("colon"), Num(5, 0), Word("a"), Num(6, 0), Word("ans")>>,
      payback |-> Some(Dec(5, 500))],
     \* "... : 6 ans"
     [tokens |-> <<Word("RetourSurInvestissement"), Word("colon"), Num(6, 0), Word("ans")>>, payback |-> Amount(6)],
     \* "... - 3 ans"
     [tokens |-> <<Word("RetourSurInvestissement"), Word("dash"), Num(3, 0), Word("ans")>>, payback |-> Amount(3)],
     \* "... : 0 ans"
     [tokens |-> <<Word("RetourSurInvestissement"), Word("colon"), Num(0, 0), Word("ans")>>, payback |-> Amount(0)]}

EpTexts ==
    {[type |-> "ep_text", inv |-> inv, ret |-> ret, tokens |-> inv.tokens \o ret.tokens] :
        inv \in EpInvParts, ret \in EpReturnParts}

\* the rates and the years the two fills are applied to, in steps of a
\* quarter
Rates == {[type |-> "rate", v |-> Dec(w, m)] : w \in 0..MaxRate, m \in {0, 250, 500, 750}}

Years == {[type |-> "years", v |-> Dec(w, m)] : w \in 0..MaxYears, m \in {0, 250, 500, 750}}

\* the amounts investment_range_label and min_investment_mad are applied to
AmountInputs ==
    {[type |-> "amount", v |-> None]} \cup
    {[type |-> "amount", v |-> Some(Dec(w, m))] :
        w \in {0, 1234, 4999999, INV_LOW_MAX, 19999999, INV_MEDIUM_MAX, 62500000},
        m \in {0, 1, 560, 999}}

\* the title blocks found under the project number
CapturedTitles ==
    {\* four words, the same two twice
     <<"C", "E", "N", "T", "R", "E", " ", "D", "'", "A", "P", "P", "E", "L", " ", "C", "E",
       "N", "T", "R", "E", " ", "D", "'", "A", "P", "P", "E", "L">>,
     \* six words, the same three twice
     <<"U", "N", "I", "T", "E", " ", "D", "E", " ", "S", "E", "C", "H", "A", "G", "E", " ",
       "U", "N", "I", "T", "E", " ", "D", "E", " ", "S", "E", "C", "H", "A", "G", "E">>,
     \* a double space
     <<"U", "n", "i", "t", "é", " ", " ", "d", "e", " ", "s", "é", "c", "h", "a", "g", "e">>,
     \* two words
     <<"M", "I", "E", "L", " ", "M", "I", "E", "L">>,
     \* three words
     <<"H", "U", "I", "L", "E", " ", "D", "'", "O", "L", "I", "V", "E", " ", "H", "U", "I",
       "L", "E">>,
     \* six words, not a repetition
     <<"A", " ", "B", " ", "C", " ", "A", " ", "B", " ", "D">>,
     \* an underscore
     <<"f", "i", "c", "h", "e", "_", "p", "r", "o", "j", "e", "t">>,
     \* a letter NFD does not split
     <<"S", "ø", "r", "e", "n">>,
     \* three characters
     <<"T", "h", "é">>,
     \* 78 characters
     <<"U", "N", "I", "T", "E", " ", "D", "E", " ", "V", "A", "L", "O", "R", "I", "S", "A",
       "T", "I", "O", "N", " ", "E", "T", " ", "D", "E", " ", "C", "O", "N", "D", "I", "T",
       "I", "O", "N", "N", "E", "M", "E", "N", "T", " ", "D", "E", "S", " ", "P", "L", "A",
       "N", "T", "E", "S", " ", "A", "R", "O", "M", "A", "T", "I", "Q", "U", "E", "S", " ",
       "E", "T", " ", "M", "E", "D", "I", "C", "I", "N">>,
     \* 77 characters
     <<"U", "N", "I", "T", "E", " ", "D", "E", " ", "V", "A", "L", "O", "R", "I", "S", "A",
       "T", "I", "O", "N", " ", "E", "T", " ", "D", "E", " ", "C", "O", "N", "D", "I", "T",
       "I", "O", "N", "N", "E", "M", "E", "N", "T", " ", "D", "E", "S", " ", "P", "L", "A",
       "N", "T", "E", "S", " ", "A", "R", "O", "M", "A", "T", "I", "Q", "U", "E", "S", " ",
       "E", "T", " ", "M", "E", "D", "I", "C", "I">>,
     \* 97 characters
     <<"U", "N", "I", "T", "E", " ", "D", "E", " ", "V", "A", "L", "O", "R", "I", "S", "A",
       "T", "I", "O", "N", " ", "E", "T", " ", "D", "E", " ", "C", "O", "N", "D", "I", "T",
       "I", "O", "N", "N", "E", "M", "E", "N", "T", " ", "D", "E", "S", " ", "P", "L", "A",
       "N", "T", "E", "S", " ", "A", "R", "O", "M", "A", "T", "I", "Q", "U", "E", "S", " ",
       "E", "T", " ", "M", "E", "D", "I", "C", "I", "N", "A", "L", "E", "S", " ", "D", "U",
       " ", "M", "O", "Y", "E", "N", " ", "A", "T", "L", "A", "S">>}

\* the texts the title is located in: a line with the project number, the
\* title block on the next line, then the sector line; captured is the
\* title block
TitleTexts ==
    {[type |-> "title_text", text |-> header \o captured \o <<"\n", "S", "e", "c", "t", "e", "u", "r", " ", "é", "c", "o", "n", "o", "m", "i", "q", "u", "e", " ", ":", " ", "A", "G", "R", "I", "C", "U", "L", "T", "U", "R", "E">>,
      filename |-> <<"f", "i", "c", "h", "e", ".", "p", "d", "f">>, captured |-> Some(captured)] :
        header \in {<<"P", "r", "o", "j", "e", "t", " ", "N", "°", " ", ":", " ", "P", "R", "1", "0", "0", "\n">>,
                    <<"P", "R", "O", "J", "E", "T", " ", "N", "°", " ", ":", " ", "P", "R", "1", "0", "0", "\n">>},
        captured \in CapturedTitles}

\* texts without a project number, and the names of their files
UntitledTexts ==
    {[type |-> "title_text", text |-> <<"F", "i", "c", "h", "e", " ", "s", "a", "n", "s", " ", "m", "a", "r", "q", "u", "e", "u", "r", "\n", "S", "e", "c", "t", "e", "u", "r", " ", "é", "c", "o", "n", "o", "m", "i", "q", "u", "e", " ", ":", " ", "A", "G", "R", "I", "C", "U", "L", "T", "U", "R", "E">>,
      filename |-> filename, captured |-> None] :
        filename \in {<<"f", "i", "c", "h", "e", "_", "p", "r", "o", "j", "e", "t", "-", "1", "2", ".", "p", "d", "f">>,
                      <<"c", "e", "n", "t", "r", "e", "-", "a", "p", "p", "e", "l", ".", "p", "d", "f">>,
                      <<"F", "i", "c", "h", "e", ".", "p", "d", "f", ".", "p", "d", "f">>}}

\* the regions and the titles build_record finds in a project block
EpTitles ==
    {[type |-> "ep_title", region |-> region, title |-> title] :
        region \in {None, Some(FES_REGION)},
        title \in {None} \cup {Some(captured) : captured \in CapturedTitles}}

\* a one-page document with the text of its left half, of its right half
\* and of the whole page, and what the texts hold: the values written
\* after the sector label and the sub-sector label (sector_left in the left
\* text, sector_full in the full text before a heading, sub_right and
\* sub_full likewise) and located, the fields that one of the patterns of
\* their locator finds
LayoutText(left, right, full, sector_left, sector_full, sub_right, sub_full, located) ==
    [type |-> "layout", filename |-> <<"f", "i", "c", "h", "e", "-", "p", "r", "o", "j", "e", "t", ".", "p", "d", "f">>,
     pdf |-> PdfOf(<<[text |-> full, raises |-> FALSE, left |-> Some(left), right |-> Some(right)]>>),
     sector_left |-> sector_left, sector_full |-> sector_full, sub_right |-> sub_right, sub_full |-> sub_full,
     located |-> located]

LayoutTexts ==
    {\* the two labels each in its column
     LayoutText(<<"S", "e", "c", "t", "e", "u", "r", " ", "é", "c", "o", "n", "o", "m", "i", "q", "u", "e", " ", ":", " ", "A", "G", "R", "I", "C", "U", "L", "T", "U", "R", "E">>,
                <<"F", "i", "l", "i", "è", "r", "e", "s", " ", "d", "e", " ", "p", "r", "o", "d", "u", "c", "t", "i", "o", "n", " ", ":", " ", "A", "G", "R", "U", "M", "E", "S">>,
                <<"S", "e", "c", "t", "e", "u", "r", " ", "é", "c", "o", "n", "o", "m", "i", "q", "u", "e", " ", ":", " ", "A", "G", "R", "I", "C", "U", "L", "T", "U", "R", "E", " ", "F", "i", "l", "i", "è", "r", "e", "s", " ", "d", "e", " ", "p", "r", "o", "d", "u", "c", "t", "i", "o", "n", " ", ":", " ", "A", "G", "R", "U", "M", "E", "S">>,
                Some(<<"A", "G", "R", "I", "C", "U", "L", "T", "U", "R", "E">>), None,
                Some(<<"A", "G", "R", "U", "M", "E", "S">>), None,
                {"sector", "sub_sector"}),
     \* the same, headings below the labels
     LayoutText(<<"S", "e", "c", "t", "e", "u", "r", " ", "é", "c", "o", "n", "o", "m", "i", "q", "u", "e", " ", ":", " ", "A", "G", "R", "I", "C", "U", "L", "T", "U", "R", "E", "\n", "A", "C", "T", "I", "V", "I", "T", "É", " ", "-", " ", "D", "E", "S", "C", "R", "I", "P", "T", "I", "O", "N", " ", "D", "U", " ", "P", "R", "O", "J", "E", "T">>,
                <<"F", "i", "l", "i", "è", "r", "e", "s", " ", "d", "e", " ", "p", "r", "o", "d", "u", "c", "t", "i", "o", "n", " ", ":", " ", "H", "u", "i", "l", "e", " ", " ", "d", "'", "o", "l", "i", "v", "e", "\n", "A", "N", "A", "L", "Y", "S", "E", " ", "D", "U", " ", "M", "A", "R", "C", "H", "É">>,
                <<"S", "e", "c", "t", "e", "u", "r", " ", "é", "c", "o", "n", "o", "m", "i", "q", "u", "e", " ", ":", " ", "A", "G", "R", "I", "C", "U", "L", "T", "U", "R", "E", " ", "F", "i", "l", "i", "è", "r", "e", "s", " ", "d", "e", " ", "p", "r", "o", "d", "u", "c", "t", "i", "o", "n", " ", ":", " ", "H", "u", "i", "l", "e", " ", " ", "d", "'", "o", "l", "i", "v", "e", "\n", "A", "C", "T", "I", "V", "I", "T", "É", " ", "-", " ", "D", "E", "S", "C", "R", "I", "P", "T", "I", "O", "N", " ", "D", "U", " ", "P", "R", "O", "J", "E", "T", " ", "A", "N", "A", "L", "Y", "S", "E", " ", "D", "U", " ", "M", "A", "R", "C", "H", "É">>,
                Some(<<"A", "G", "R", "I", "C", "U", "L", "T", "U", "R", "E">>), None,
                Some(<<"H", "u", "i", "l", "e", " ", "d", "'", "o", "l", "i", "v", "e">>), None,
                {"sector", "sub_sector", "description"}),
     \* the labels in the full text only; the sector line is under the project number
     LayoutText(<<"P", "r", "o", "j", "e", "t", " ", "N", "°", " ", ":", " ", "P", "R", "1", "0", "0">>,
                <<"P", "R", "1", "0", "0">>,
                <<"P", "r", "o", "j", "e", "t", " ", "N", "°", " ", ":", " ", "P", "R", "1", "0", "0", "\n", "S", "e", "c", "t", "e", "u", "r", " ", "é", "c", "o", "n", "o", "m", "i", "q", "u", "e", " ", ":", " ", "P", "E", "C", "H", "E", "\n", "F", "i", "l", "i", "è", "r", "e", "s", " ", "d", "e", " ", "p", "r", "o", "d", "u", "c", "t", "i", "o", "n", " ", ":", " ", "A", "Q", "U", "A", "C", "U", "L", "T", "U", "R", "E", "\n", "A", "C", "T", "I", "V", "I", "T", "É", " ", "-", " ", "D", "E", "S", "C", "R", "I", "P", "T", "I", "O", "N", " ", "D", "U", " ", "P", "R", "O", "J", "E", "T">>,
                None, Some(<<"P", "E", "C", "H", "E">>),
                None, Some(<<"A", "Q", "U", "A", "C", "U", "L", "T", "U", "R", "E">>),
                {"title", "sector", "sub_sector"}),
     \* other values in the full text than in the columns
     LayoutText(<<"S", "e", "c", "t", "e", "u", "r", " ", "é", "c", "o", "n", "o", "m", "i", "q", "u", "e", " ", ":", " ", "I", "N", "D", "U", "S", "T", "R", "I", "E">>,
                <<"F", "i", "l", "i", "è", "r", "e", "s", " ", "d", "e", " ", "p", "r", "o", "d", "u", "c", "t", "i", "o", "n", " ", ":", " ", "T", "E", "X", "T", "I", "L", "E">>,
                <<"S", "e", "c", "t", "e", "u", "r", " ", "é", "c", "o", "n", "o", "m", "i", "q", "u", "e", " ", ":", " ", "I", "N", "D", "U", "S", "T", "R", "I", "E", " ", "T", "E", "X", "T", "I", "L", "E", " ", "F", "i", "l", "i", "è", "r", "e", "s", " ", "d", "e", " ", "p", "r", "o", "d", "u", "c", "t", "i", "o", "n", " ", ":", " ", "T", "E", "X", "T", "I", "L", "E", " ", "C", "U", "I", "R", "\n", "A", "N", "A", "L", "Y", "S", "E", " ", "D", "U", " ", "M", "A", "R", "C", "H", "É">>,
                Some(<<"I", "N", "D", "U", "S", "T", "R", "I", "E">>), None,
                Some(<<"T", "E", "X", "T", "I", "L", "E">>), None,
                {"sector", "sub_sector"}),
     \* no label, no line under the project number, no article at the start of a line
     LayoutText(<<"P", "r", "o", "j", "e", "t", " ", "N", "°", " ", ":", " ", "P", "R", "1", "0", "0">>,
                <<"U", "n", "e", " ", "u", "n", "i", "t", "é">>,
                <<"P", "r", "o", "j", "e", "t", " ", "N", "°", " ", ":", " ", "P", "R", "1", "0", "0", " ", "U", "n", "e", " ", "u", "n", "i", "t", "é">>,
                None, None,
                None, None,
                {}),
     \* the labels in the full text only, no heading after the values
     LayoutText(<<"P", "r", "o", "j", "e", "t">>,
                <<"P", "R", "1", "0", "0">>,
                <<"S", "e", "c", "t", "e", "u", "r", " ", "é", "c", "o", "n", "o", "m", "i", "q", "u", "e", " ", ":", " ", "T", "O", "U", "R", "I", "S", "M", "E", "\n", "F", "i", "l", "i", "è", "r", "e", "s", " ", "d", "e", " ", "p", "r", "o", "d", "u", "c", "t", "i", "o", "n", " ", ":", " ", "H", "O", "T", "E", "L", "L", "E", "R", "I", "E">>,
                None, Some(<<"T", "O", "U", "R", "I", "S", "M", "E">>),
                None, None,
                {"sector"}),
     \* the labels in the other column
     LayoutText(<<"F", "i", "l", "i", "è", "r", "e", "s", " ", "d", "e", " ", "p", "r", "o", "d", "u", "c", "t", "i", "o", "n", " ", ":", " ", "A", "G", "R", "U", "M", "E", "S">>,
                <<"S", "e", "c", "t", "e", "u", "r", " ", "é", "c", "o", "n", "o", "m", "i", "q", "u", "e", " ", ":", " ", "A", "G", "R", "I", "C", "U", "L", "T", "U", "R", "E">>,
                <<"F", "i", "l", "i", "è", "r", "e", "s", " ", "d", "e", " ", "p", "r", "o", "d", "u", "c", "t", "i", "o", "n", " ", ":", " ", "A", "G", "R", "U", "M", "E", "S", " ", "S", "e", "c", "t", "e", "u", "r", " ", "é", "c", "o", "n", "o", "m", "i", "q", "u", "e", " ", ":", " ", "A", "G", "R", "I", "C", "U", "L", "T", "U", "R", "E">>,
                None, None,
                None, Some(<<"A", "G", "R", "U", "M", "E", "S">>),
                {"sub_sector"}),
     \* the labels twice
     LayoutText(<<"S", "e", "c", "t", "e", "u", "r", " ", "é", "c", "o", "n", "o", "m", "i", "q", "u", "e", " ", ":", " ", "S", "e", "c", "t", "e", "u", "r", " ", "é", "c", "o", "n", "o", "m", "i", "q", "u", "e", " ", ":", " ", "M", "I", "N", "E", "S">>,
                <<"F", "i", "l", "i", "è", "r", "e", "s", " ", "d", "e", " ", "p", "r", "o", "d", "u", "c", "t", "i", "o", "n", " ", ":", " ", "F", "i", "l", "i", "è", "r", "e", "s", " ", "d", "e", " ", "p", "r", "o", "d", "u", "c", "t", "i", "o", "n", ":", " ", "P", "H", "O", "S", "P", "H", "A", "T", "E">>,
                <<"S", "e", "c", "t", "e", "u", "r", " ", "é", "c", "o", "n", "o", "m", "i", "q", "u", "e", " ", ":", " ", "M", "I", "N", "E", "S">>,
                Some(<<"M", "I", "N", "E", "S">>), None,
                Some(<<"P", "H", "O", "S", "P", "H", "A", "T", "E">>), None,
                {"sector", "sub_sector"}),
     \* every field
     LayoutText(<<"P", "r", "o", "j", "e", "t", " ", "N", "°", " ", ":", " ", "P", "R", "1", "0", "0", "\n", "C", "e", "n", "t", "r", "e", " ", "d", "'", "a", "p", "p", "e", "l", "\n", "S", "e", "c", "t", "e", "u", "r", " ", "é", "c", "o", "n", "o", "m", "i", "q", "u", "e", " ", ":", " ", "S", "E", "R", "V", "I", "C", "E", "S", "\n", "A", "C", "T", "I", "V", "I", "T", "É", " ", "-", " ", "D", "E", "S", "C", "R", "I", "P", "T", "I", "O", "N", " ", "D", "U", " ", "P", "R", "O", "J", "E", "T", "\n", "U", "n", " ", "c", "e", "n", "t", "r", "e", " ", "d", "'", "a", "p", "p", "e", "l", "\n", "P", "R", "O", "G", "R", "A", "M", "M", "E">>,
                <<"F", "i", "l", "i", "è", "r", "e", "s", " ", "d", "e", " ", "p", "r", "o", "d", "u", "c", "t", "i", "o", "n", " ", ":", " ", "O", "F", "F", "S", "H", "O", "R", "I", "N", "G", "\n", "L", "i", "e", "u", " ", ":", " ", "A", "z", "i", "l", "a", "l", "\n", "Z", "I", " ", "A", "z", "i", "l", "a", "l", " ", "S", "u", "p", " ", ":", " ", "2", " ", "H", "a">>,
                <<"P", "r", "o", "j", "e", "t", " ", "N", "°", " ", ":", " ", "P", "R", "1", "0", "0", "\n", "C", "e", "n", "t", "r", "e", " ", "d", "'", "a", "p", "p", "e", "l", "\n", "S", "e", "c", "t", "e", "u", "r", " ", "é", "c", "o", "n", "o", "m", "i", "q", "u", "e", " ", ":", " ", "S", "E", "R", "V", "I", "C", "E", "S", " ", "F", "i", "l", "i", "è", "r", "e", "s", " ", "d", "e", " ", "p", "r", "o", "d", "u", "c", "t", "i", "o", "n", " ", ":", " ", "O", "F", "F", "S", "H", "O", "R", "I", "N", "G", "\n", "A", "C", "T", "I", "V", "I", "T", "É", " ", "-", " ", "D", "E", "S", "C", "R", "I", "P", "T", "I", "O", "N", " ", "D", "U", " ", "P", "R", "O", "J", "E", "T", " ", "L", "i", "e", "u", " ", ":", " ", "A", "z", "i", "l", "a", "l", "\n", "U", "n", " ", "c", "e", "n", "t", "r", "e", " ", "d", "'", "a", "p", "p", "e", "l", " ", "Z", "I", " ", "A", "z", "i", "l", "a", "l", " ", "S", "u", "p", " ", ":", " ", "2", " ", "H", "a", "\n", "P", "R", "O", "G", "R", "A", "M", "M", "E">>,
                Some(<<"S", "E", "R", "V", "I", "C", "E", "S">>), None,
                Some(<<"O", "F", "F", "S", "H", "O", "R", "I", "N", "G", " ", "L", "i", "e", "u", " ", ":", " ", "A", "z", "i", "l", "a", "l", " ", "Z", "I", " ", "A", "z", "i", "l", "a", "l", " ", "S", "u", "p", " ", ":", " ", "2", " ", "H", "a">>), None,
                {"title", "sector", "sub_sector", "description", "province", "industrial_zone"}),
     \* a place and a zone only
     LayoutText(<<"F", "i", "c", "h", "e", " ", "t", "e", "c", "h", "n", "i", "q", "u", "e">>,
                <<"L", "i", "e", "u", " ", ":", " ", "T", "a", "d", "l", "a", "\n", "Z", "A", "E", " ", "T", "a", "d", "l", "a">>,
                <<"F", "i", "c", "h", "e", " ", "t", "e", "c", "h", "n", "i", "q", "u", "e", " ", "L", "i", "e", "u", " ", ":", " ", "T", "a", "d", "l", "a", "\n", "Z", "A", "E", " ", "T", "a", "d", "l", "a">>,
                None, None,
                None, None,
                {"province", "industrial_zone"}),
     \* a narrative only
     LayoutText(<<"U", "n", "e", " ", "u", "n", "i", "t", "é", " ", "d", "e", " ", "s", "é", "c", "h", "a", "g", "e", "\n", "S", "u", "p", " ", ":", " ", "2", " ", "H", "a">>,
                <<>>,
                <<"U", "n", "e", " ", "u", "n", "i", "t", "é", " ", "d", "e", " ", "s", "é", "c", "h", "a", "g", "e", "\n", "S", "u", "p", " ", ":", " ", "2", " ", "H", "a">>,
                None, None,
                None, None,
                {"description"}),
     \* a place written with a number
     LayoutText(<<"L", "i", "e", "u", " ", ":", " ", "L", "o", "t", " ", "1", "2">>,
                <<>>,
                <<"L", "i", "e", "u", " ", ":", " ", "L", "o", "t", " ", "1", "2">>,
                None, None,
                None, None,
                {})}

\* a page of a document that holds many projects: marker tells what the
\* page carries, "number" for a project number, "generic" for the word
\* PROJET before a colon or a hyphen with a section heading in capitals,
\* else "none"
ProjectPage(text, marker) == [text |-> text, marker |-> marker]

ProjectPages ==
    {
     \* a cover that names a project number
     ProjectPage(<<"B", "A", "N", "Q", "U", "E", " ", "D", "E", " ", "P", "R", "O", "J", "E", "T", "S", "\n", "P", "R", "O", "J", "E", "T", " ", "N", "°", " ", "1", " ", "à", " ", "4", "0">>, "number"),
     \* a project number
     ProjectPage(<<"P", "R", "O", "J", "E", "T", " ", "N", "°", "3", "6", "\n", "F", "I", "L", "I", "È", "R", "E", " ", ":", " ", "O", "L", "I", "V", "E">>, "number"),
     \* a project number with letters, in small letters
     ProjectPage(<<"F", "i", "c", "h", "e", " ", "d", "u", " ", "p", "r", "o", "j", "e", "t", " ", "n", "°", " ", "A", "-", "1", "2">>, "number"),
     \* the generic marker with a section heading
     ProjectPage(<<"P", "R", "O", "J", "E", "T", " ", ":", " ", "H", "U", "I", "L", "E", "\n", "F", "I", "L", "I", "E", "R", "E", " ", ":", " ", "O", "L", "I", "V", "E">>, "generic"),
     \* the generic marker with a hyphen and the other heading
     ProjectPage(<<"P", "r", "o", "j", "e", "t", " ", "-", " ", "M", "I", "E", "L", "\n", "D", "E", "S", "C", "R", "I", "P", "T", "I", "O", "N">>, "generic"),
     \* the generic marker without a section heading
     ProjectPage(<<"P", "R", "O", "J", "E", "T", " ", ":", " ", "H", "U", "I", "L", "E", "\n", "F", "i", "l", "i", "è", "r", "e", " ", ":", " ", "o", "l", "i", "v", "e">>, "none"),
     \* no marker
     ProjectPage(<<"S", "U", "I", "T", "E", " ", "D", "E", " ", "L", "A", " ", "D", "E", "S", "C", "R", "I", "P", "T", "I", "O", "N", "\n", "P", "R", "O", "J", "E", "T", "S", " ", "N", "°", " ", "1", "2">>, "none"),
     \* a page without text
     ProjectPage(<<>>, "none")}

\* the sequences of 1 to n elements of S
SeqsUpTo(S, n) == UNION {[1..k -> S] : k \in 1..n}

\* the documents of at most MaxPages pages
BankDocuments == {[type |-> "bank", pages |-> pages] : pages \in SeqsUpTo(ProjectPages, MaxPages)}

\* what pdfplumber finds in a document
BankPdf(doc) == PdfOf([i \in 1..Len(doc.pages) |-> TextPage(doc.pages[i].text)])

\* a page as pdfplumber gives it: text is what extract_text returns, chars
\* the glyphs with their positions in half points (None when the page has
\* no glyph stream), width the width of the page; left is the text of the
\* glyphs of the left half in reading order, None when there is none
GlyphPage(text, chars, left) == [text |-> text, chars |-> chars, width |-> 400, left |-> left]

GlyphPages ==
    {
     \* two columns, the right one first in the stream
     GlyphPage(<<"U", "n", " ", "s", "i", "t", "e", " ", "L", "i", "e", "u", "\n", "i", "c", "i">>,
               Some(<<[text |-> "L", x0 |-> 220, x1 |-> 230, top |-> 20],
                     [text |-> "i", x0 |-> 230, x1 |-> 240, top |-> 20],
                     [text |-> "e", x0 |-> 240, x1 |-> 250, top |-> 20],
                     [text |-> "u", x0 |-> 250, x1 |-> 260, top |-> 20],
                     [text |-> "U", x0 |-> 10, x1 |-> 20, top |-> 20],
                     [text |-> "n", x0 |-> 20, x1 |-> 30, top |-> 20],
                     [text |-> "s", x0 |-> 42, x1 |-> 52, top |-> 20],
                     [text |-> "i", x0 |-> 52, x1 |-> 62, top |-> 20],
                     [text |-> "t", x0 |-> 62, x1 |-> 72, top |-> 20],
                     [text |-> "e", x0 |-> 72, x1 |-> 82, top |-> 20],
                     [text |-> "i", x0 |-> 10, x1 |-> 20, top |-> 44],
                     [text |-> "c", x0 |-> 20, x1 |-> 30, top |-> 44],
                     [text |-> "i", x0 |-> 30, x1 |-> 40, top |-> 44]>>),
               Some(<<"U", "n", " ", "s", "i", "t", "e", "\n", "i", "c", "i">>)),
     \* no glyph stream
     GlyphPage(<<"T", "e", "x", "t", "e", " ", "e", "n", "t", "i", "e", "r", "\n", "d", "e", " ", "l", "a", " ", "p", "a", "g", "e">>,
               None,
               None),
     \* an empty glyph stream
     GlyphPage(<<"P", "a", "g", "e", " ", "n", "u", "m", "é", "r", "i", "s", "é", "e", " ">>,
               Some(<<>>),
               None),
     \* glyphs in the right half only
     GlyphPage(<<"L", "i", "e", "u">>,
               Some(<<[text |-> "L", x0 |-> 220, x1 |-> 230, top |-> 20],
                     [text |-> "i", x0 |-> 230, x1 |-> 240, top |-> 20],
                     [text |-> "e", x0 |-> 240, x1 |-> 250, top |-> 20],
                     [text |-> "u", x0 |-> 250, x1 |-> 260, top |-> 20]>>),
               None),
     \* gaps at the thresholds, a glyph across the middle, space glyphs around a line end
     GlyphPage(<<"A", "B", "E", " ", "C", "D", "\n", "F">>,
               Some(<<[text |-> "C", x0 |-> 41, x1 |-> 51, top |-> 20],
                     [text |-> "A", x0 |-> 10, x1 |-> 20, top |-> 20],
                     [text |-> "B", x0 |-> 25, x1 |-> 35, top |-> 20],
                     [text |-> "E", x0 |-> 195, x1 |-> 205, top |-> 20],
                     [text |-> " ", x0 |-> 10, x1 |-> 20, top |-> 26],
                     [text |-> "D", x0 |-> 0, x1 |-> 10, top |-> 26],
                     [text |-> "F", x0 |-> 10, x1 |-> 20, top |-> 50],
                     [text |-> " ", x0 |-> 0, x1 |-> 10, top |-> 50]>>),
               Some(<<"A", "B", " ", "C", "D", "\n", "F">>)),
     \* no glyph stream and no text
     GlyphPage(<<>>,
               None,
               None)}

\* the documents of at most MaxPages pages, with the page a project starts on
GlyphDocuments ==
    UNION {{[type |-> "glyphs", pages |-> pages, start_page |-> p] : p \in 1..Len(pages)} :
              pages \in SeqsUpTo(GlyphPages, MaxPages)}

(***************************************************************************)
(* The functions applied to one input                                      *)
(***************************************************************************)
\* the input x, no function applied yet
Input(x) == [fn |-> "input", arg |-> x, res |-> None]

IsInput(type) == call.fn = "input" /\ call.arg.type = type

\* fn applied to the input, with its result
Applied(fn, res) == [fn |-> fn, arg |-> call.arg, res |-> res]

engine_vars == <<csv, csv_new, cache, pc, run_vars, fresh, crawl_vars>>

FnInit ==
    /\ csv = MissingFile
    /\ csv_new = MissingFile
    /\ cache = {}
    /\ pc = "idle"
    /\ df_existing_full = EmptyFrame
    /\ found = "missing"
    /\ next_id = 1
    /\ df_kept = EmptyFrame
    /\ pdf_files = <<>>
    /\ futures = <<>>
    /\ taken = <<>>
    /\ extracted_rows = <<>>
    /\ df_out = EmptyFrame
    /\ werr = "unset"
    /\ wres = "none"
    /\ writes = 0
    /\ log = {}
    /\ fresh = FALSE
    /\ in_row = FALSE
    /\ CrawlIdle
    /\ \/ \E x \in BkTexts : call = Input(x)
       \/ \E x \in EpTexts : call = Input(x)
       \/ \E x \in AmountInputs : call = Input(x)
       \/ \E x \in Rates : call = Input(x)
       \/ \E x \in Years : call = Input(x)
       \/ \E x \in TitleTexts \cup UntitledTexts : call = Input(x)
       \/ \E x \in EpTitles : call = Input(x)
       \/ \E x \in LayoutTexts : call = Input(x)
       \/ \E x \in BankDocuments : call = Input(x)
       \/ \E x \in GlyphDocuments : call = Input(x)

ApplyExtractNumericFields ==
    /\ IsInput("bk_text")
    /\ call' = Applied("extract_numeric_fields", extract_numeric_fields(call.arg.tokens))
    /\ UNCHANGED engine_vars

ApplyProcessOnePdf ==
    /\ IsInput("bk_text")
    /\ \E project_id \in {1, MaxId} :
          call' = Applied("process_one_pdf", process_one_pdf([DocAppel EXCEPT !.tokens = call.arg.tokens], project_id))
    /\ UNCHANGED engine_vars

ApplyBuildRecord ==
    /\ IsInput("ep_text")
    /\ call' = Applied("build_record",
                       build_record(1, 2, [region |-> Some(FES_REGION), title |-> None,
                                           tokens |-> call.arg.tokens]))
    /\ UNCHANGED engine_vars

ApplyInvestmentFields ==
    /\ IsInput("amount")
    /\ call' = Applied("investment_fields",
                       [investment_range |-> investment_range_label(call.arg.v),
                        min_investment_mad |-> min_investment_mad(call.arg.v)])
    /\ UNCHANGED engine_vars

\* a rate alone: the payback filled from it, then the rate filled from
\* that payback alone
ApplyFillsToRate ==
    /\ IsInput("rate")
    /\ LET payback == fill_payback(Some(call.arg.v), None)
       IN  call' = Applied("fills", [payback_period_years |-> payback,
                                     roi_estimated |-> fill_roi(None, payback)])
    /\ UNCHANGED engine_vars

\* years alone: the rate filled from them, then the years filled from that
\* rate alone
ApplyFillsToYears ==
    /\ IsInput("years")
    /\ LET roi == fill_roi(None, Some(call.arg.v))
       IN  call' = Applied("fills", [roi_estimated |-> roi,
                                     payback_period_years |-> fill_payback(roi, None)])
    /\ UNCHANGED engine_vars

\* the worker task on a document whose one page holds the text and whose
\* file has the name
ApplyProcessTitledPdf ==
    /\ IsInput("title_text")
    /\ \E project_id \in {1, MaxId} :
          LET pdf == PdfOf(<<TextPage(call.arg.text)>>)
              title == extract_project_title(extract_text_with_layout(pdf).full_text, call.arg.filename)
          IN  call' = Applied("process_titled_pdf",
                              process_one_pdf([DocAppel EXCEPT !.pdf = pdf, !.title = title], project_id))
    /\ UNCHANGED engine_vars

ApplyBuildTitledRecord ==
    /\ IsInput("ep_title")
    /\ \E project_index \in {1, MaxId} :
          call' = Applied("build_titled_record",
                          build_record(project_index, 2, [region |-> call.arg.region, title |-> call.arg.title,
                                                          tokens |-> <<>>]))
    /\ UNCHANGED engine_vars

\* the located fields of a document from the three texts of its layout
ApplyExtractFields ==
    /\ IsInput("layout")
    /\ LET layout_data == extract_text_with_layout(call.arg.pdf)
       IN  call' = Applied("extract_fields",
                           [title |-> Some(extract_project_title(layout_data.full_text, call.arg.filename)),
                            sector |-> Some(extract_sector_from_layout(layout_data.left_text, layout_data.full_text)),
                            sub_sector |-> extract_sub_sector_from_layout(layout_data.right_text,
                                                                          layout_data.full_text),
                            description |-> extract_description_from_layout(layout_data.left_text,
                                                                            layout_data.full_text),
                            province |-> extract_province(Join(<<layout_data.full_text, layout_data.left_text,
                                                                 layout_data.right_text>>, <<"\n">>)),
                            industrial_zone |-> extract_industrial_zone(Join(<<layout_data.full_text,
                                                                               layout_data.left_text,
                                                                               layout_data.right_text>>, <<"\n">>))])
    /\ UNCHANGED engine_vars

ApplyFindProjectStartPages ==
    /\ IsInput("bank")
    /\ call' = Applied("find_project_start_pages",
                       find_project_start_pages(extract_text_per_page(BankPdf(call.arg))))
    /\ UNCHANGED engine_vars

\* one turn of the loop of main over the start pages
ApplyGetProjectTextBlock ==
    /\ IsInput("bank")
    /\ LET pages_text == extract_text_per_page(BankPdf(call.arg))
           project_pages == SelectSeq(find_project_start_pages(pages_text), LAMBDA p : p > 1)
       IN  \E i \in 1..Len(project_pages) :
               call' = Applied("get_project_text_block",
                               [start_page |-> project_pages[i],
                                text |-> get_project_text_block(pages_text, project_pages[i])])
    /\ UNCHANGED engine_vars

\* the call of extract_project_description
ApplyExtractTextFromLeftColumn ==
    /\ IsInput("glyphs")
    /\ call' = Applied("extract_text_from_left_column",
                       extract_text_from_left_column([pages |-> call.arg.pages], call.arg.start_page, 2))
    /\ UNCHANGED engine_vars

FnNext ==
    \/ ApplyExtractNumericFields
    \/ ApplyProcessOnePdf
    \/ ApplyBuildRecord
    \/ ApplyInvestmentFields
    \/ ApplyFillsToRate
    \/ ApplyFillsToYears
    \/ ApplyProcessTitledPdf
    \/ ApplyBuildTitledRecord
    \/ ApplyExtractFields
    \/ ApplyFindProjectStartPages
    \/ ApplyGetProjectTextBlock
    \/ ApplyExtractTextFromLeftColumn

FnSpec == FnInit /\ [][FnNext]_vars

(***************************************************************************)
(* The crawl of the site, collect_pdf_urls_from_site.  A URL is its text;  *)
(* an href of a page is written as the absolute URL urljoin makes of it.   *)
(* A site gives for every URL the answer of session.get: ok is FALSE when  *)
(* the request or raise_for_status raises, anchors are the href values of  *)
(* the a elements in document order and links the link elements with       *)
(* their rel.                                                              *)
(***************************************************************************)
URL_PROJETS == <<"h", "t", "t", "p", "s", ":", "/", "/", "c", "o", "e", "u", "r", "d", "u", "m", "a", "r", "o", "c", ".", "m", "a", "/", "f", "r", "/", "p", "r", "o", "j", "e", "c", "t", "s">>

MAX_PAGES == 200

\* str.lower() on the characters of a URL
LowerMap == [c \in UpperLetters |-> <<LowerSeq[CHOOSE i \in 1..26 : UpperSeq[i] = c]>>]

StartsWith(s, prefix) == Len(prefix) <= Len(s) /\ SubSeq(s, 1, Len(prefix)) = prefix

EndsWith(s, suffix) == Len(suffix) <= Len(s) /\ SubSeq(s, Len(s) - Len(suffix) + 1, Len(s)) = suffix

\* the first position from i on that holds a character of chars, Len(s) + 1
\* when there is none
FirstAt(s, i, chars) == MinOf({j \in i..(Len(s) + 1) : j = Len(s) + 1 \/ s[j] \in chars})

\* urlparse(u).netloc: what follows the first "//" up to the path, the
\* query or the fragment
netloc(u) ==
    LET slashes == {i \in 1..(Len(u) - 1) : u[i] = "/" /\ u[i + 1] = "/"}
    IN  IF slashes = {} THEN <<>>
        ELSE SubSeq(u, MinOf(slashes) + 2, FirstAt(u, MinOf(slashes) + 2, {"/", "?", "#"}) - 1)

is_any_site(url) == netloc(url) # <<>>

is_same_site(url) == EndsWith(netloc(url), <<"c", "o", "e", "u", "r", "d", "u", "m", "a", "r", "o", "c", ".", "m", "a">>)

\* the URL without its fragment
normalize_url(u) == SubSeq(u, 1, FirstAt(u, 1, {"#"}) - 1)

\* the pages of the endless site
PageUrl(n) == IF n = 1 THEN URL_PROJETS ELSE URL_PROJETS \o <<"?", "p", "a", "g", "e", "=">> \o IntToStr(n)

DetailUrl(n) == URL_PROJETS \o <<"/", "p", "r", "o", "j", "e", "t", "-">> \o IntToStr(n)

\* the document of page n, its extension in capitals on the even pages
DocUrl(n) ==
    <<"h", "t", "t", "p", "s", ":", "/", "/", "c", "o", "e", "u", "r", "d", "u", "m", "a", "r", "o", "c", ".", "m", "a", "/", "s", "t", "o", "r", "a", "g", "e", "/", "f", "i", "c", "h", "e", "-">> \o IntToStr(n)
        \o (IF n % 2 = 0 THEN <<".", "P", "D", "F">> ELSE <<".", "p", "d", "f">>)

NoPage == [ok |-> FALSE, anchors |-> <<>>, links |-> <<>>]

Page(anchors, links) == [ok |-> TRUE, anchors |-> anchors, links |-> links]

\* a listing of two pages that link to each other, two detail pages (one
\* cannot be fetched), documents on the site and elsewhere
ListingSite(url) ==
    CASE url \in {URL_PROJETS, URL_PROJETS \o <<"/">>} ->
             Page(<<<<>>,
                      <<"h", "t", "t", "p", "s", ":", "/", "/", "c", "o", "e", "u", "r", "d", "u", "m", "a", "r", "o", "c", ".", "m", "a", "/", "f", "r", "/", "p", "r", "o", "j", "e", "c", "t", "s", "#", "l", "i", "s", "t", "e">>,
                      <<"h", "t", "t", "p", "s", ":", "/", "/", "c", "o", "e", "u", "r", "d", "u", "m", "a", "r", "o", "c", ".", "m", "a", "/", "f", "r", "/", "p", "r", "o", "j", "e", "c", "t", "s", "/">>,
                      <<"h", "t", "t", "p", "s", ":", "/", "/", "c", "o", "e", "u", "r", "d", "u", "m", "a", "r", "o", "c", ".", "m", "a", "/", "f", "r", "/", "p", "r", "o", "j", "e", "c", "t", "s", "?", "p", "a", "g", "e", "=", "2">>,
                      <<"h", "t", "t", "p", "s", ":", "/", "/", "c", "o", "e", "u", "r", "d", "u", "m", "a", "r", "o", "c", ".", "m", "a", "/", "f", "r", "/", "p", "r", "o", "j", "e", "c", "t", "s", "/", "c", "e", "n", "t", "r", "e", "-", "a", "p", "p", "e", "l">>,
                      <<"h", "t", "t", "p", "s", ":", "/", "/", "c", "o", "e", "u", "r", "d", "u", "m", "a", "r", "o", "c", ".", "m", "a", "/", "f", "r", "/", "p", "r", "o", "j", "e", "c", "t", "s", "/", "s", "e", "c", "h", "a", "g", "e">>,
                      <<"h", "t", "t", "p", "s", ":", "/", "/", "c", "o", "e", "u", "r", "d", "u", "m", "a", "r", "o", "c", ".", "m", "a", "/", "f", "r", "/", "c", "o", "n", "t", "a", "c", "t">>,
                      <<"h", "t", "t", "p", "s", ":", "/", "/", "c", "o", "e", "u", "r", "d", "u", "m", "a", "r", "o", "c", ".", "m", "a", "/", "s", "t", "o", "r", "a", "g", "e", "/", "g", "u", "i", "d", "e", ".", "p", "d", "f">>,
                      <<"h", "t", "t", "p", "s", ":", "/", "/", "e", "x", "a", "m", "p", "l", "e", ".", "c", "o", "m", "/", "f", "r", "/", "p", "r", "o", "j", "e", "c", "t", "s", "/", "a", "n", "n", "o", "n", "c", "e", ".", "p", "d", "f">>,
                      <<"h", "t", "t", "p", "s", ":", "/", "/", "e", "x", "a", "m", "p", "l", "e", ".", "c", "o", "m", "/", "f", "r", "/", "p", "r", "o", "j", "e", "c", "t", "s", "?", "p", "a", "g", "e", "=", "9">>>>,
                  <<[rel |-> <<"s", "t", "y", "l", "e", "s", "h", "e", "e", "t">>, href |-> <<"h", "t", "t", "p", "s", ":", "/", "/", "c", "o", "e", "u", "r", "d", "u", "m", "a", "r", "o", "c", ".", "m", "a", "/", "f", "r", "/", "p", "r", "o", "j", "e", "c", "t", "s", "/", "s", "t", "y", "l", "e", ".", "c", "s", "s">>],
                    [rel |-> <<"n", "e", "x", "t">>, href |-> <<"h", "t", "t", "p", "s", ":", "/", "/", "c", "o", "e", "u", "r", "d", "u", "m", "a", "r", "o", "c", ".", "m", "a", "/", "f", "r", "/", "p", "r", "o", "j", "e", "c", "t", "s", "?", "p", "a", "g", "e", "=", "2">>]>>)
      [] url = <<"h", "t", "t", "p", "s", ":", "/", "/", "c", "o", "e", "u", "r", "d", "u", "m", "a", "r", "o", "c", ".", "m", "a", "/", "f", "r", "/", "p", "r", "o", "j", "e", "c", "t", "s", "?", "p", "a", "g", "e", "=", "2">> ->
             Page(<<<<"h", "t", "t", "p", "s", ":", "/", "/", "c", "o", "e", "u", "r", "d", "u", "m", "a", "r", "o", "c", ".", "m", "a", "/", "f", "r", "/", "p", "r", "o", "j", "e", "c", "t", "s">>,
                      <<"h", "t", "t", "p", "s", ":", "/", "/", "c", "o", "e", "u", "r", "d", "u", "m", "a", "r", "o", "c", ".", "m", "a", "/", "f", "r", "/", "p", "r", "o", "j", "e", "c", "t", "s", "/", "c", "e", "n", "t", "r", "e", "-", "a", "p", "p", "e", "l">>,
                      <<"h", "t", "t", "p", "s", ":", "/", "/", "w", "w", "w", ".", "c", "o", "e", "u", "r", "d", "u", "m", "a", "r", "o", "c", ".", "m", "a", "/", "s", "t", "o", "r", "a", "g", "e", "/", "F", "I", "C", "H", "E", "-", "1", "2", ".", "P", "D", "F", "#", "p", "a", "g", "e", "=", "1">>>>,
                  <<[rel |-> <<"p", "r", "e", "v">>, href |-> <<"h", "t", "t", "p", "s", ":", "/", "/", "c", "o", "e", "u", "r", "d", "u", "m", "a", "r", "o", "c", ".", "m", "a", "/", "f", "r", "/", "p", "r", "o", "j", "e", "c", "t", "s">>]>>)
      [] url = <<"h", "t", "t", "p", "s", ":", "/", "/", "c", "o", "e", "u", "r", "d", "u", "m", "a", "r", "o", "c", ".", "m", "a", "/", "f", "r", "/", "p", "r", "o", "j", "e", "c", "t", "s", "/", "c", "e", "n", "t", "r", "e", "-", "a", "p", "p", "e", "l">> ->
             Page(<<<<"h", "t", "t", "p", "s", ":", "/", "/", "c", "o", "e", "u", "r", "d", "u", "m", "a", "r", "o", "c", ".", "m", "a", "/", "s", "t", "o", "r", "a", "g", "e", "/", "c", "e", "n", "t", "r", "e", "-", "a", "p", "p", "e", "l", ".", "p", "d", "f", "?", "v", "=", "2">>,
                      <<"h", "t", "t", "p", "s", ":", "/", "/", "c", "o", "e", "u", "r", "d", "u", "m", "a", "r", "o", "c", ".", "m", "a", "/", "f", "r", "/", "p", "r", "o", "j", "e", "c", "t", "s">>>>,
                  <<>>)
      [] OTHER -> NoPage

\* a listing without end: page n holds a document and a detail page that
\* cannot be fetched, and names page n + 1 as the next one
EndlessSite(url) ==
    IF \E n \in 1..(MAX_PAGES + 1) : url = PageUrl(n)
    THEN LET n == CHOOSE n \in 1..(MAX_PAGES + 1) : url = PageUrl(n)
         IN  Page(<<DocUrl(n), DetailUrl(n)>>, <<[rel |-> <<"N", "e", "x", "t">>, href |-> PageUrl(n + 1)]>>)
    ELSE NoPage

Sites == {"listing", "endless", "down"}

\* what session.get(url) finds
Response(url) ==
    CASE site = "listing" -> ListingSite(url)
      [] site = "endless" -> EndlessSite(url)
      [] OTHER -> NoPage

\* ".pdf" in abs_url.lower()
is_pdf(abs_url) ==
    \E i \in 1..(Len(abs_url) - 3) :
        /\ abs_url[i] = "."
        /\ abs_url[i + 1] \in {"p", "P"}
        /\ abs_url[i + 2] \in {"d", "D"}
        /\ abs_url[i + 3] \in {"f", "F"}

in_projects(abs_url) == Contains(abs_url, <<"/", "f", "r", "/", "p", "r", "o", "j", "e", "c", "t", "s">>)

followed(abs_url, start_url) ==
    /\ in_projects(abs_url)
    /\ \/ Contains(abs_url, <<"p", "a", "g", "e", "=">>)
       \/ RStrip(abs_url, {"/"}) = RStrip(start_url, {"/"})
       \/ StartsWith(abs_url, RStrip(start_url, {"/"}) \o <<"/">>)

\* the absolute URLs of the a elements of an answer that have an href and
\* stay on the site
site_anchors(resp) ==
    LET hrefs == SelectSeq([i \in 1..Len(resp.anchors) |-> Strip(resp.anchors[i], SpaceChars)], LAMBDA h : h # <<>>)
    IN  SelectSeq([i \in 1..Len(hrefs) |-> normalize_url(hrefs[i])], is_same_site)

next_links(resp) ==
    LET nexts == SelectSeq(resp.links, LAMBDA l : Contains(MapChars(l.rel, LowerMap), <<"n", "e", "x", "t">>))
    IN  SelectSeq([i \in 1..Len(nexts) |-> normalize_url(nexts[i].href)],
                  LAMBDA u : is_same_site(u) /\ in_projects(u))

CrawlInit ==
    /\ csv = MissingFile
    /\ csv_new = MissingFile
    /\ cache = {}
    /\ pc = "idle"
    /\ df_existing_full = EmptyFrame
    /\ found = "missing"
    /\ next_id = 1
    /\ df_kept = EmptyFrame
    /\ pdf_files = <<>>
    /\ futures = <<>>
    /\ taken = <<>>
    /\ extracted_rows = <<>>
    /\ df_out = EmptyFrame
    /\ werr = "unset"
    /\ wres = "none"
    /\ writes = 0
    /\ log = {}
    /\ fresh = FALSE
    /\ in_row = FALSE
    /\ call = [fn |-> "none", arg |-> None, res |-> None]
    /\ site \in Sites
    /\ queue = <<URL_PROJETS>>
    /\ visited = {}
    /\ pdf_urls = {}
    /\ requests = <<>>
    /\ crawl_pc = "loop"

\* the loop goes on
Crawling == crawl_pc = "loop" /\ queue # <<>> /\ Cardinality(visited) < MAX_PAGES

\* the URL taken from the queue was fetched before
CrawlSkipVisited ==
    /\ Crawling
    /\ normalize_url(Head(queue)) \in visited
    /\ queue' = Tail(queue)
    /\ UNCHANGED <<site, visited, pdf_urls, requests, crawl_pc>>
    /\ UNCHANGED <<csv, csv_new, cache, pc, run_vars, fresh, call>>

\* session.get or raise_for_status raises
CrawlFetchFails ==
    /\ Crawling
    /\ \E url \in {normalize_url(Head(queue))} :
           /\ url \notin visited
           /\ ~Response(url).ok
           /\ visited' = visited \cup {url}
           /\ requests' = Append(requests, [url |-> url, ok |-> FALSE])
    /\ queue' = Tail(queue)
    /\ UNCHANGED <<site, pdf_urls, crawl_pc>>
    /\ UNCHANGED <<csv, csv_new, cache, pc, run_vars, fresh, call>>

\* the URLs of documents among the links of an answer
found_pdfs(resp) == {abs_url \in Range(site_anchors(resp)) : is_pdf(abs_url)}

\* the URLs an answer adds to the queue: the followed a elements, then the
\* next links
to_queue(resp, start_url) ==
    SelectSeq(site_anchors(resp), LAMBDA u : ~is_pdf(u) /\ followed(u, start_url)) \o next_links(resp)

\* the page is fetched and its links are sorted out
CrawlFetchPage ==
    /\ Crawling
    /\ \E url \in {normalize_url(Head(queue))} :
           /\ url \notin visited
           /\ \E resp \in {Response(url)} :
                  /\ resp.ok
                  /\ visited' = visited \cup {url}
                  /\ requests' = Append(requests, [url |-> url, ok |-> TRUE])
                  /\ pdf_urls' = pdf_urls \cup found_pdfs(resp)
                  /\ queue' = Tail(queue) \o to_queue(resp, URL_PROJETS)
    /\ UNCHANGED <<site, crawl_pc>>
    /\ UNCHANGED <<csv, csv_new, cache, pc, run_vars, fresh, call>>

\* the loop ends and pdf_urls is returned
CrawlReturn ==
    /\ crawl_pc = "loop"
    /\ ~Crawling
    /\ crawl_pc' = "returned"
    /\ UNCHANGED <<site, queue, visited, pdf_urls, requests>>
    /\ UNCHANGED <<csv, csv_new, cache, pc, run_vars, fresh, call>>

CrawlNext ==
    \/ CrawlSkipVisited
    \/ CrawlFetchFails
    \/ CrawlFetchPage
    \/ CrawlReturn

\* the function runs on until it returns
CrawlSpec == CrawlInit /\ [][CrawlNext]_vars /\ WF_vars(CrawlNext)

(***************************************************************************)
(* Properties of the numeric fields                                        *)
(***************************************************************************)
\* C12: for every text holding both an amount in KDHS and an amount in
\* MDH/MDHS, extract_numeric_fields returns the KDHS amount times 1,000 as
\* estimated_investment_mad.
C12_KdhsBeforeMdh ==
    (/\ call.fn = "extract_numeric_fields"
     /\ call.arg.inv.kdhs # None
     /\ call.arg.inv.mdh # None)
    => call.res.estimated_investment_mad = call.arg.inv.kdhs

\* the text holds no amount in KDHS or MDH
NoUnitAmount == call.arg.inv.kdhs = None /\ call.arg.inv.mdh = None

\* C13 as stated: without an amount in KDHS or MDH, the amount in DH/DHS is
\* the one after the investment label, else the one next to the CA marker,
\* else the first standalone one.
C13_LabelledThenCa ==
    (call.fn = "extract_numeric_fields" /\ NoUnitAmount) =>
        call.res.estimated_investment_mad =
            (IF call.arg.inv.labelled # None THEN call.arg.inv.labelled
             ELSE IF call.arg.inv.ca # None THEN call.arg.inv.ca
             ELSE call.arg.inv.standalone)

\* C13: without an amount in KDHS or MDH, the amount in DH/DHS is the one
\* next to the CA marker ("- x DHS - CA"), else the first one after the
\* investment label, else the first standalone one.
C13_CaThenLabelled ==
    (call.fn = "extract_numeric_fields" /\ NoUnitAmount) =>
        call.res.estimated_investment_mad =
            (IF call.arg.inv.ca # None THEN call.arg.inv.ca
             ELSE IF call.arg.inv.labelled # None THEN call.arg.inv.labelled
             ELSE call.arg.inv.standalone)

C13_Witness ==
    /\ call.fn = "extract_numeric_fields"
    /\ NoUnitAmount
    /\ call.arg.inv.labelled # None
    /\ call.arg.inv.ca # None
    /\ call.arg.inv.ca # call.arg.inv.labelled
    /\ call.res.estimated_investment_mad = call.arg.inv.ca

\* "20 - 30 MDH"
TwentyToThirtyMdh == <<Num(20, 0), Word("dash"), Num(30, 0), Word("MDH")>>

\* C14: when the amount of a text is written as a range "a - b" in KDHS or
\* in MDH/MDHS, estimated_investment_mad is ((a + b) / 2) times 1,000 or
\* 1,000,000; the record of a document whose text contains "20 - 30 MDH"
\* has estimated_investment_mad 25,000,000, min_investment_mad 20,000,000
\* and investment_range "High".
C14_RangeMean ==
    /\ (call.fn = "extract_numeric_fields" /\ call.arg.inv.ranges = {"KDHS"}) =>
          call.res.estimated_investment_mad = call.arg.inv.kdhs
    /\ (call.fn = "extract_numeric_fields" /\ call.arg.inv.ranges = {"MDH"}) =>
          call.res.estimated_investment_mad = call.arg.inv.mdh
    /\ (call.fn = "process_one_pdf" /\ call.arg.inv.tokens = TwentyToThirtyMdh) =>
          /\ call.res # None
          /\ call.res[1].estimated_investment_mad = Some(Dec(25000000, 0))
          /\ call.res[1].min_investment_mad = Some(Dec(20000000, 0))
          /\ call.res[1].investment_range = Some("High")

\* the label the thresholds give to an optional amount
ExpectedRange(amount) ==
    IF amount = None THEN None
    ELSE IF amount[1].w < 5000000 THEN Some("Low")
    ELSE IF amount[1].w < 20000000 \/ amount[1] = Dec(20000000, 0) THEN Some("Medium")
    ELSE Some("High")

\* the record an assembler has emitted, None when none was emitted
EmittedRecord ==
    IF call.fn = "process_one_pdf" THEN call.res
    ELSE IF call.fn = "build_record" THEN Some(call.res)
    ELSE None

\* C15: investment_range_label gives "Low" below 5,000,000, "Medium" from
\* 5,000,000 to 20,000,000, "High" above 20,000,000 and None for no amount,
\* and the investment_range of every record emitted by process_one_pdf or
\* build_record is that label of the record's estimated_investment_mad.
C15_RangeLabel ==
    /\ call.fn = "investment_fields" => call.res.investment_range = ExpectedRange(call.arg.v)
    /\ EmittedRecord # None =>
          EmittedRecord[1].investment_range = ExpectedRange(EmittedRecord[1].estimated_investment_mad)

\* min - 0.8 * est in ten-thousandths, for a min whose whole part is within
\* one unit of that of 0.8 * est
EightTenthsGap(min, est) ==
    (min.w - (8 * est.w) \div 10) * 10000 + min.m * 10 - (((8 * est.w) % 10) * 1000 + 8 * est.m)

\* min is 0.8 * est up to less than gap ten-thousandths
EightTenthsWithin(min, est, gap) ==
    /\ min.w - (8 * est.w) \div 10 \in -1..1
    /\ EightTenthsGap(min, est) < gap
    /\ -EightTenthsGap(min, est) < gap

\* C16 as stated: in every emitted record min_investment_mad is 0.8 times
\* estimated_investment_mad when that is known, and absent when it is absent.
C16_MinIsEightTenths ==
    EmittedRecord # None =>
        LET est == EmittedRecord[1].estimated_investment_mad
            min == EmittedRecord[1].min_investment_mad
        IN  IF est = None THEN min = None
            ELSE min # None /\ EightTenthsWithin(min[1], est[1], 1)

\* C16: in every emitted record min_investment_mad is absent when
\* estimated_investment_mad is absent, and else has two decimals and is 0.8
\* times the amount read in the text rounded to two decimals: within half a
\* hundredth of 0.8 times estimated_investment_mad in a record of
\* process_one_pdf, and less than a hundredth away from it in a record of
\* build_record, which stores estimated_investment_mad rounded to two
\* decimals.
C16_MinRoundedEightTenths ==
    EmittedRecord # None =>
        LET est == EmittedRecord[1].estimated_investment_mad
            min == EmittedRecord[1].min_investment_mad
        IN  IF est = None THEN min = None
            ELSE /\ min # None
                 /\ min[1].m % 10 = 0
                 /\ EightTenthsWithin(min[1], est[1], IF call.fn = "process_one_pdf" THEN 51 ELSE 100)

\* a record whose min_investment_mad, 987.65, is 0.8 times 1,234.56 rounded
C16_Witness ==
    /\ call.fn = "process_one_pdf"
    /\ call.res # None
    /\ call.res[1].estimated_investment_mad = Some(Dec(1234, 560))
    /\ call.res[1].min_investment_mad = Some(Dec(987, 650))

\* the text gives its area in hectares only
HectaresOnly ==
    /\ call.arg.area.ha # None
    /\ call.arg.area.m2_range = None
    /\ call.arg.area.m2_single = None

\* C17: for every text whose area is written in hectares, "Sup : h Ha" or
\* the range "Sup : h1 - h2 Ha", required_land_area_m2 is the hectare value
\* (the mean of the endpoints for a range) times 10,000.
C17_HectaresTimes10000 ==
    (call.fn = "extract_numeric_fields" /\ HectaresOnly) =>
        call.res.required_land_area_m2 = call.arg.area.ha

\* C18: required_land_area_m2 is the mean of the endpoints of a range in
\* m² when the text has one, else the single value in m², else the hectare
\* value converted to m²; a text containing "Sup : 500 - 700 m²" yields 600.
C18_AreaOrder ==
    call.fn = "extract_numeric_fields" =>
        /\ call.res.required_land_area_m2 =
              (IF call.arg.area.m2_range # None THEN call.arg.area.m2_range
               ELSE IF call.arg.area.m2_single # None THEN call.arg.area.m2_single
               ELSE call.arg.area.ha)
        /\ call.arg.area.tokens = <<Word("Sup"), Word("colon"), Num(500, 0), Word("dash"), Num(700, 0), Word("m2")>>
              => call.res.required_land_area_m2 = Amount(600)

\* a value in thousandths, and in hundredths when it has two decimals
Thousandths(v) == v.w * 1000 + v.m

InHundredths(v) == v.w * 100 + v.m \div 10

Distance(a, b) == IF a < b THEN b - a ELSE a - b

\* y is 100 / x rounded to two decimals
IsRounded100Over(y, x) ==
    /\ y # None
    /\ y[1].m % 10 = 0
    /\ 2 * Distance(InHundredths(y[1]) * Thousandths(x), 10000000) <= Thousandths(x)

\* the rate lies in (0, 100]
RateInRange(rate) == Thousandths(rate) > 0 /\ Thousandths(rate) <= 100000

\* the fills have been applied to a rate alone, in (0, 100]
RateAlone == call.fn = "fills" /\ call.arg.type = "rate" /\ RateInRange(call.arg.v)

\* the fills have been applied to positive years alone
YearsAlone == call.fn = "fills" /\ call.arg.type = "years" /\ Thousandths(call.arg.v) > 0

\* a text that holds a rate in (0, 100] and no payback has been searched
\* and the rate was found
OnlyRateFound ==
    /\ call.fn = "extract_numeric_fields"
    /\ call.arg.ret.rate # None /\ call.arg.ret.payback = None
    /\ RateInRange(call.arg.ret.rate[1])
    /\ call.res.roi_estimated = call.arg.ret.rate

\* a text that holds a positive payback and no rate has been searched and
\* the payback was found
OnlyPaybackFound ==
    /\ call.fn = "extract_numeric_fields"
    /\ call.arg.ret.payback # None /\ call.arg.ret.rate = None
    /\ Thousandths(call.arg.ret.payback[1]) > 0
    /\ call.res.payback_period_years = call.arg.ret.payback

\* the derived value is the reciprocal, to two decimals
DerivedIsReciprocal ==
    /\ RateAlone => IsRounded100Over(call.res.payback_period_years, call.arg.v)
    /\ YearsAlone => IsRounded100Over(call.res.roi_estimated, call.arg.v)
    /\ OnlyRateFound => IsRounded100Over(call.res.payback_period_years, call.arg.ret.rate[1])
    /\ OnlyPaybackFound => IsRounded100Over(call.res.roi_estimated, call.arg.ret.payback[1])

\* the rate derived from the payback derived from the rate is the rate, up
\* to less than gap thousandths
RoundTripWithin(gap) ==
    /\ call.res.roi_estimated # None
    /\ Distance(Thousandths(call.res.roi_estimated[1]), Thousandths(call.arg.v)) < gap

\* C19 as stated: a rate found alone in (0, 100] gives the payback
\* 100 / rate, a positive payback found alone gives the rate 100 / payback,
\* and the rate derived from the payback derived from a rate is that rate
\* within the rounding to two decimals.
C19_ReciprocalLaw ==
    /\ DerivedIsReciprocal
    /\ RateAlone => RoundTripWithin(11)

\* C19: a rate found alone in (0, 100] gives the payback 100 / rate rounded
\* to two decimals, a positive payback found alone gives the rate
\* 100 / payback rounded to two decimals, and the rate derived from the
\* payback derived from a rate is that rate within 0.01 for a rate of at
\* most 10 and within 0.51 for every rate in (0, 100].
C19_RoundedReciprocal ==
    /\ DerivedIsReciprocal
    /\ (RateAlone /\ Thousandths(call.arg.v) <= 10000) => RoundTripWithin(11)
    /\ RateAlone => RoundTripWithin(511)

\* the rate 95 gives the payback 1.05, which gives the rate 95.24
C19_Witness ==
    /\ RateAlone
    /\ ~RoundTripWithin(11)
    /\ call.arg.v = Dec(95, 0)
    /\ call.res.payback_period_years = Some(Dec(1, 50))
    /\ call.res.roi_estimated = Some(Dec(95, 240))

\* the rate and the payback written in the text of the emitted record;
\* build_record reads no rate
TextRate == IF call.fn = "process_one_pdf" THEN call.arg.ret.rate ELSE None

TextPayback == call.arg.ret.payback

\* the value of the record is the one written in the text
RateKnown == TextRate # None /\ EmittedRecord[1].roi_estimated = TextRate

PaybackKnown == TextPayback # None /\ EmittedRecord[1].payback_period_years = TextPayback

\* a value of the record for which the text has none is the reciprocal of
\* the strictly positive value the text has for the other
DerivedFromKnown ==
    /\ (EmittedRecord[1].roi_estimated # None /\ TextRate = None) =>
          /\ TextPayback # None /\ Thousandths(TextPayback[1]) > 0
          /\ IsRounded100Over(EmittedRecord[1].roi_estimated, TextPayback[1])
    /\ (EmittedRecord[1].payback_period_years # None /\ TextPayback = None) =>
          /\ TextRate # None /\ Thousandths(TextRate[1]) > 0
          /\ IsRounded100Over(EmittedRecord[1].payback_period_years, TextRate[1])

\* C20 as stated: in every record emitted by process_one_pdf or
\* build_record, when exactly one of roi_estimated and payback_period_years
\* is known from the text the other is its reciprocal 100 / x (for a rate
\* in (0, 100] or a strictly positive payback, to two decimals), and a value
\* the text does not give is derived from a known, strictly positive value
\* of the other, never present while the other is absent.
C20_CrossFill ==
    EmittedRecord # None =>
        /\ (RateKnown /\ TextPayback = None /\ RateInRange(TextRate[1])) =>
              IsRounded100Over(EmittedRecord[1].payback_period_years, TextRate[1])
        /\ (PaybackKnown /\ TextRate = None /\ Thousandths(TextPayback[1]) > 0) =>
              IsRounded100Over(EmittedRecord[1].roi_estimated, TextPayback[1])
        /\ DerivedFromKnown

\* 100 / 6 rounded to two decimals
StandardRoi == Some(Dec(16, 670))

\* C20: in every record emitted by process_one_pdf, when only the rate is
\* found the payback is 100 / rate rounded to two decimals if the rate lies
\* in (0, 100] and absent otherwise, when only the payback is found the rate
\* is 100 / payback rounded to two decimals if the payback is strictly
\* positive and absent otherwise, and a value the text does not give is
\* derived from the strictly positive value it gives for the other.  In
\* every record emitted by build_record, which reads no rate, the payback is
\* the one found in the text or absent, and roi_estimated is 100 / payback
\* rounded to two decimals for a strictly positive payback and 16.67
\* (100 / 6) otherwise, also when the payback is absent.
C20_CrossFillOrStandard ==
    /\ (call.fn = "process_one_pdf" /\ call.res # None) =>
          /\ (RateKnown /\ TextPayback = None) =>
                IF RateInRange(TextRate[1])
                THEN IsRounded100Over(call.res[1].payback_period_years, TextRate[1])
                ELSE call.res[1].payback_period_years = None
          /\ (PaybackKnown /\ TextRate = None) =>
                IF Thousandths(TextPayback[1]) > 0
                THEN IsRounded100Over(call.res[1].roi_estimated, TextPayback[1])
                ELSE call.res[1].roi_estimated = None
          /\ DerivedFromKnown
    /\ call.fn = "build_record" =>
          /\ call.res.payback_period_years = TextPayback
          /\ IF TextPayback # None /\ Thousandths(TextPayback[1]) > 0
             THEN IsRounded100Over(call.res.roi_estimated, TextPayback[1])
             ELSE call.res.roi_estimated = StandardRoi

\* a record of build_record without payback carries the standard rate
C20_Witness ==
    /\ call.fn = "build_record"
    /\ call.res.payback_period_years = None
    /\ call.res.roi_estimated = StandardRoi

(***************************************************************************)
(* Properties of the reference and of the title                            *)
(***************************************************************************)
\* the record of the worker task applied to a titled text
TitledRecord == call.res[1]

\* C21: for every title, the titles taken from the name of the file
\* included, and every project_id, project_reference holds only characters
\* of [A-Z0-9-] (so no diacritics) and ends with the decimal project_id.
C21_ReferenceAlphabet ==
    call.fn = "process_titled_pdf" =>
        LET reference == TitledRecord.project_reference
            id == <<"-">> \o IntToStr(TitledRecord.project_id)
        IN  /\ \A i \in 1..Len(reference) : reference[i] \in UpperLetters \cup Digits \cup {"-"}
            /\ Len(reference) >= Len(id)
            /\ SubSeq(reference, Len(reference) - Len(id) + 1, Len(reference)) = id

\* the region token, the title token and the id of an emitted record, and
\* its reference
RefParts ==
    IF call.fn = "process_titled_pdf"
    THEN [region |-> normalize_for_reference(BK_REGION),
          title |-> normalize_for_reference(TitledRecord.project_title[1]),
          id |-> IntToStr(TitledRecord.project_id),
          reference |-> TitledRecord.project_reference]
    ELSE [region |-> normalize_for_reference(IF call.arg.region = None THEN <<"U", "N", "K", "N", "O", "W", "N">>
                                             ELSE call.arg.region[1]),
          title |-> normalize_for_reference(IF call.arg.title = None THEN <<"P", "R", "O", "J", "E", "T">>
                                            ELSE call.arg.title[1]),
          id |-> IntToStr(call.res.project_id),
          reference |-> call.res.project_reference]

\* C22: in every record of either assembler, when region-title-id is longer
\* than 100 characters the reference is the region token, a prefix of the
\* title token and the id, and is not longer than 100 characters.
C22_TitleTruncated ==
    (/\ call.fn \in {"process_titled_pdf", "build_titled_record"}
     /\ Len(RefParts.region) + Len(RefParts.title) + Len(RefParts.id) + 2 > 100) =>
        /\ Len(RefParts.reference) <= 100
        /\ \E k \in 0..Len(RefParts.title) :
              RefParts.reference =
                  RefParts.region \o <<"-">> \o SubSeq(RefParts.title, 1, k) \o <<"-">> \o RefParts.id

\* the words of the captured title block
CapturedWords == SelectSeq(Split(call.arg.captured[1], SpaceChars), LAMBDA w : w # <<>>)

\* C23: a captured title whose words are the same block twice (any even
\* number of words) is returned as one block; any other title is returned
\* with its whitespace cleaned and nothing else changed.
C23_HalfKept ==
    (call.fn = "process_titled_pdf" /\ call.arg.captured # None) =>
        LET half == Len(CapturedWords) \div 2
        IN  TitledRecord.project_title[1] =
               (IF /\ Len(CapturedWords) % 2 = 0
                   /\ SubSeq(CapturedWords, 1, half) = SubSeq(CapturedWords, half + 1, Len(CapturedWords))
                THEN Join(SubSeq(CapturedWords, 1, half), <<" ">>)
                ELSE Join(CapturedWords, <<" ">>))

(***************************************************************************)
(* Properties of the located fields                                        *)
(***************************************************************************)
\* a located value that still begins with one of the two labels
StartsWithLabel(v) == LabelEnd(v, 1, SectorLabel) # 0 \/ LabelEnd(v, 1, SubSectorLabel) # 0

\* C24: the sector is the value after the label in the left text and the
\* sub-sector the value after the label in the right text when the label is
\* there; the value found in the full text is returned only when the
\* column has no label; no returned value begins with a label; the page
\* with "Secteur économique : AGRICULTURE" on the left and "Filières de
\* production : AGRUMES" on the right gives AGRICULTURE and AGRUMES.
C24_ColumnsFirst ==
    call.fn = "extract_fields" =>
        /\ call.arg.sector_left # None => call.res.sector = call.arg.sector_left
        /\ call.arg.sub_right # None => call.res.sub_sector = call.arg.sub_right
        /\ (call.arg.sector_left = None /\ call.arg.sector_full # None) =>
               call.res.sector = call.arg.sector_full
        /\ call.arg.sub_right = None => call.res.sub_sector = call.arg.sub_full
        /\ ~StartsWithLabel(call.res.sector[1])
        /\ call.res.sub_sector # None => ~StartsWithLabel(call.res.sub_sector[1])
        /\ (/\ call.arg.sector_left = Some(<<"A", "G", "R", "I", "C", "U", "L", "T", "U", "R", "E">>)
            /\ call.arg.sub_right = Some(<<"A", "G", "R", "U", "M", "E", "S">>)) =>
               /\ call.res.sector = Some(<<"A", "G", "R", "I", "C", "U", "L", "T", "U", "R", "E">>)
               /\ call.res.sub_sector = Some(<<"A", "G", "R", "U", "M", "E", "S">>)

\* the located fields of a page whose columns and whose full text hold
\* different values after the labels
C24_Witness ==
    /\ call.fn = "extract_fields"
    /\ call.arg.sector_left = Some(<<"I", "N", "D", "U", "S", "T", "R", "I", "E">>)
    /\ call.res.sector = Some(<<"I", "N", "D", "U", "S", "T", "R", "I", "E">>)
    /\ call.res.sub_sector = Some(<<"T", "E", "X", "T", "I", "L", "E">>)

\* the located fields
LocatedFields == {"title", "sector", "sub_sector", "description", "province", "industrial_zone"}

PagesMarked(marker) == {p \in 2..Len(call.arg.pages) : call.arg.pages[p].marker = marker}

\* C26: find_project_start_pages never returns page 1; it returns exactly
\* the pages after the cover that carry a project number when there is one,
\* and exactly the pages after the cover that carry the generic marker with
\* a section heading when there is none; the result is in ascending order
\* without duplicates.
C26_StartPages ==
    call.fn = "find_project_start_pages"
    => /\ \A i \in 1..Len(call.res) : call.res[i] # 1
       /\ Range(call.res) = IF PagesMarked("number") # {} THEN PagesMarked("number") ELSE PagesMarked("generic")
       /\ \A i \in 1..Len(call.res) : \A j \in 1..Len(call.res) : i < j => call.res[i] < call.res[j]

\* the cover names a project number, a later page too and another page
\* carries the generic marker with a heading: only the page with the number
\* is returned
C26_Witness ==
    /\ call.fn = "find_project_start_pages"
    /\ call.arg.pages[1].marker = "number"
    /\ PagesMarked("number") # {}
    /\ PagesMarked("generic") # {}
    /\ Range(call.res) = PagesMarked("number")

\* C27: for a detected start page p, get_project_text_block returns the
\* text of page p, a line end and the text of page p+1, the text of page p
\* alone when p is the last page, whatever page p+1 carries.
C27_TwoPageWindow ==
    call.fn = "get_project_text_block"
    => LET p == call.res.start_page
       IN  call.res.text = IF p < Len(call.arg.pages)
                           THEN call.arg.pages[p].text \o <<"\n">> \o call.arg.pages[p + 1].text
                           ELSE call.arg.pages[p].text

\* the page after the start page is the start page of the next project, and
\* its text is in the block
C27_Witness ==
    /\ call.fn = "get_project_text_block"
    /\ call.res.start_page = 2
    /\ Len(call.arg.pages) = 3
    /\ call.arg.pages[2].marker = "number"
    /\ call.arg.pages[3].marker = "number"
    /\ call.arg.pages[2].text # call.arg.pages[3].text
    /\ call.res.text = call.arg.pages[2].text \o <<"\n">> \o call.arg.pages[3].text

(***************************************************************************)
(* Properties of the left-column text                                      *)
(***************************************************************************)
\* the pages extract_text_from_left_column reads: the start page and the
\* next one
WindowPages == {p \in 1..Len(call.arg.pages) : p = call.arg.start_page \/ p = call.arg.start_page + 1}

\* the page has no glyph stream
NoGlyphStream(page) == page.chars = None \/ page.chars = Some(<<>>)

\* C28 as stated: when no page read has a glyph stream, the column text is
\* empty, the text of the whole page is not in it.
C28_ColumnEmptyWithoutGlyphs ==
    (/\ call.fn = "extract_text_from_left_column"
     /\ \A p \in WindowPages : NoGlyphStream(call.arg.pages[p]))
    => Strip(call.res, SpaceChars) = <<>>

(***************************************************************************)
(* Properties of the crawl                                                 *)
(***************************************************************************)
\* the URL is one of the site
OnSite(u) ==
    \/ StartsWith(u, <<"h", "t", "t", "p", "s", ":", "/", "/", "c", "o", "e", "u", "r", "d", "u", "m", "a", "r", "o", "c", ".", "m", "a", "/">>)
    \/ StartsWith(u, <<"h", "t", "t", "p", "s", ":", "/", "/", "w", "w", "w", ".", "c", "o", "e", "u", "r", "d", "u", "m", "a", "r", "o", "c", ".", "m", "a", "/">>)

\* no URL is fetched twice, at most MAX_PAGES requests are made, the crawl
\* ends only when the queue is empty or the bound is reached
CrawlBounded ==
    /\ \A i \in 1..Len(requests) : \A j \in 1..Len(requests) :
           i # j => requests[i].url # requests[j].url
    /\ \A i \in 1..Len(requests) : requests[i].url = normalize_url(requests[i].url)
    /\ Len(requests) <= 200
    /\ crawl_pc = "returned" => queue = <<>> \/ Len(requests) = 200

C30_NoPdfNothingWritten ==
    [][(StartRun /\ cache = {})
       => /\ csv' = csv
          /\ csv_new' = csv_new
          /\ pc' = "done"
          /\ writes' = 0
          /\ wres' = "none"
          /\ "no_pdfs" \in log']_vars

\* a run over an empty cache is over and the file still holds a row of this
\* source, which the run had left out of the rows it kept
C30_Witness ==
    /\ pc = "done"
    /\ cache = {}
    /\ pdf_files = <<>>
    /\ "no_pdfs" \in log
    /\ writes = 0
    /\ csv.st = "table"
    /\ \E i \in 1..Len(csv.rows) : csv.rows[i].source_type = Some(SOURCE_TYPE)
    /\ Len(df_kept.rows) < Len(csv.rows)

====
